---- MODULE Spec2Model ----
(***************************************************************************)
(* Model of the source-buffer layer of the RxPlayer:                       *)
(*   - QueuedSourceBuffer (src/unnamed/part_000), the FIFO queue of pushes *)
(*     and removals in front of one SourceBuffer;                          *)
(*   - SourceBuffersStore (src/unnamed/part_001), which creates, reuses    *)
(*     and disposes one QueuedSourceBuffer per buffer type.                *)
(*                                                                         *)
(* A QueuedSourceBuffer together with its SourceBuffer and the Subjects it *)
(* created is a record ("world") w; every method is an operator from world *)
(* to world, so that a whole handler, re-entrant calls made by subscribers *)
(* from inside their callbacks included, is one step.                      *)
(***************************************************************************)
EXTENDS Integers, Sequences, FiniteSets, TLC

VARIABLES
  queue,             \* QueuedSourceBuffer._queue
  pendingTask,       \* QueuedSourceBuffer._pendingTask
  lastInitSegment,   \* QueuedSourceBuffer._lastInitSegment
  currentCodec,      \* QueuedSourceBuffer._currentCodec
  destroyed,         \* TRUE once _destroy$ has emitted (listeners and timer removed)
  sourceBuffer,      \* the underlying SourceBuffer (RawBuffer)
  tasks,             \* one entry per subscription to pushChunk/removeBuffer
  trace,             \* what happened, in order: SourceBuffer calls, error reports, notifications
  initializedSourceBuffers, \* SourceBuffersStore._initializedSourceBuffers
  elements,          \* every ISourceBufferStoreElement created by the store
  mediaSourceReadyState,    \* MediaSource.readyState
  lastCall,          \* the last call made on the store, and what it returned
  manifest,          \* the Manifest of the BufferOrchestrator
  creators,          \* what PeriodBufferCreator holds, for each buffer type
  complete,          \* areBuffersComplete: whether each buffer type is complete
  emitted,           \* what the BufferOrchestrator received and sent during the last step
  persistentSessions, \* a PersistentSessionsStore, its storage and its last call
  loadedSessions,    \* a LoadedSessionsStore and the MediaKeySessions it created
  timelineIndex,     \* a TimelineRepresentationIndex and the queries made on it
  updateScheduler,   \* the manifest update scheduler and the Manifest it refreshes
  thumbnailLoader    \* a VideoThumbnailLoader, its jobs and the promises it returned

vars == <<queue, pendingTask, lastInitSegment, currentCodec, destroyed,
          sourceBuffer, tasks, trace,
          initializedSourceBuffers, elements, mediaSourceReadyState, lastCall,
          manifest, creators, complete, emitted,
          persistentSessions, loadedSessions, timelineIndex, updateScheduler,
          thumbnailLoader>>

qsbVars == <<queue, pendingTask, lastInitSegment, currentCodec, destroyed,
             sourceBuffer, tasks, trace>>

storeVars == <<initializedSourceBuffers, elements, mediaSourceReadyState, lastCall>>

orchVars == <<manifest, creators, complete, emitted>>

toolVars == <<persistentSessions, loadedSessions, timelineIndex, updateScheduler,
              thumbnailLoader>>

-----------------------------------------------------------------------------
(* Bounds of the model *)

\* number of subscriptions to pushChunk/removeBuffer made on one queue
MaxTasks == 3

\* number of subscribers of one queue, the first ones, which may subscribe
\* again from a callback
MaxReacting == 1

\* number of subscriptions made from outside of a callback when fairness is
\* assumed
MaxFairTasks == 2

\* number of elements a store creates
MaxElements == 2

\* number of subscriptions made on the queues of the elements of a store
MaxStoreTasks == 2

\* last currentTime of a tick of clock$
MaxTime == 4

\* last wantedTimeOffset of a tick of clock$
MaxOffset == 1

\* number of ranges getBlacklistedRanges gives
MaxRanges == 2

\* number of decipherability flushes of one buffer type
MaxFlushes == 2

\* number of subscriptions to pushMediaSegment
MaxPushes == 2

-----------------------------------------------------------------------------
(* Values *)

NULL == "null"

\* `undefined` bound of an append window
Undefined == -1

\* stands for +Infinity in appendWindowEnd
Infinity == 1000

InitSegments == {"init1", "init2"}

Chunks == {"chunk1"}

Codecs == {"codecA"}

TimestampOffsets == {0}

AppendWindows == {<<Undefined, Undefined>>}

\* value of _pendingTask when it is null
NoTask == [id |-> 0, type |-> "None", steps |-> <<>>]

\* a subscriber which does nothing in its callbacks
NoReaction == [on |-> "never", action |-> "None"]

\* IPushAction
PushAction(initSegment, chunk, codec, timestampOffset, appendWindow) ==
  [type |-> "Push", initSegment |-> initSegment, chunk |-> chunk, codec |-> codec,
   timestampOffset |-> timestampOffset, appendWindow |-> appendWindow]

\* IRemoveAction: the removed range is not used by the queue
RemoveAction ==
  [type |-> "Remove", initSegment |-> NULL, chunk |-> NULL, codec |-> NULL,
   timestampOffset |-> 0, appendWindow |-> <<Undefined, Undefined>>]

PushActions ==
  { PushAction(i, c, codec, t, aw) :
      i \in InitSegments \cup {NULL}, c \in Chunks \cup {NULL},
      codec \in Codecs, t \in TimestampOffsets, aw \in AppendWindows }

\* what a subscriber does from inside a callback: subscribe to a new task
\* (a push of init1 alone: it needs no SourceBuffer call, and so completes at
\* once, exactly when init1 is the last init segment pushed)
ChildActions ==
  { PushAction("init1", NULL, "codecA", 0, <<Undefined, Undefined>>) }

Reactions ==
  {NoReaction} \cup
  { [on |-> k, action |-> a] : k \in {"next", "complete", "error"}, a \in ChildActions }

\* one entry of the trace
Entry(ev, id, data, isInit, updating) ==
  [ev |-> ev, id |-> id, data |-> data, isInit |-> isInit, updating |-> updating]

-----------------------------------------------------------------------------
(* The world of one QueuedSourceBuffer *)

\* the SourceBuffer a QueuedSourceBuffer is constructed on
NewSourceBuffer(codec) ==
  [updating |-> FALSE, throwing |-> FALSE, type |-> codec, canChangeType |-> TRUE,
   timestampOffset |-> 0, appendWindowStart |-> 0, appendWindowEnd |-> Infinity]

\* QueuedSourceBuffer.constructor
NewQueuedSourceBuffer(bufferType, codec) ==
  [bufferType |-> bufferType,
   queue |-> <<>>,
   pendingTask |-> NoTask,
   lastInitSegment |-> NULL,
   currentCodec |-> codec,
   destroyed |-> FALSE,
   sourceBuffer |-> NewSourceBuffer(codec),
   tasks |-> <<>>,
   trace |-> <<>>]

\* the element of a set of one element; Val({ e : w \in {x} }) is e with w
\* standing for the value of x
Val(S) == CHOOSE v \in S : TRUE

Log(w, e) == [w EXCEPT !.trace = Append(@, e)]

RECURSIVE Flush(_)

\* a guard of _flush that never sees the SourceBuffer updating
StillProcessingNever(w) == FALSE

\* the guard of _flush: `this._sourceBuffer.updating`
StillProcessing(w) == w.sourceBuffer.updating

\* convertQueueItemToTask
convertQueueItemToTask(item) ==
  IF item.type = "Push"
    THEN LET data == item.value
             step(isInit, segmentData) ==
               [isInit |-> isInit, segmentData |-> segmentData, codec |-> data.codec,
                timestampOffset |-> data.timestampOffset,
                appendWindow |-> data.appendWindow]
             steps == (IF data.initSegment # NULL
                         THEN <<step(TRUE, data.initSegment)>> ELSE <<>>) \o
                      (IF data.chunk # NULL
                         THEN <<step(FALSE, data.chunk)>> ELSE <<>>)
         IN IF Len(steps) = 0 THEN NoTask
            ELSE [id |-> item.id, type |-> "Push", steps |-> steps]
    ELSE [id |-> item.id, type |-> "Remove", steps |-> <<>>]

\* position of the queue item of subscription id in the queue, 0 if absent
IndexOf(q, id) ==
  IF \E i \in 1..Len(q) : q[i].id = id
    THEN CHOOSE i \in 1..Len(q) : q[i].id = id
    ELSE 0

\* Array.prototype.splice(index, 1)
Splice(q, index) ==
  [i \in 1..(Len(q) - 1) |-> IF i < index THEN q[i] ELSE q[i + 1]]

\* an unsubscription that leaves the queue item in the queue
TeardownKeepsItem(world, id) ==
  [world EXCEPT !.tasks[id].subscribed = FALSE]

\* the function returned by the Observable of _addToQueue: unsubscription
Teardown(world, id) ==
  Val({
    LET index == IndexOf(w.queue, id)
    IN [w EXCEPT !.tasks[id].subscribed = FALSE,
                 !.queue = IF index > 0 THEN Splice(@, index) ELSE @]
    : w \in {world} })

\* an _addToQueue that puts the new item at the front of the queue
AddToQueueFront(world, action, reaction) ==
  Val({
    LET id == Len(w.tasks) + 1
        shouldRestartQueue == Len(w.queue) = 0 /\ w.pendingTask = NoTask
        queueItem == [id |-> id, type |-> action.type, value |-> action]
        w1 == [w EXCEPT !.tasks = Append(@, [action |-> action, reaction |-> reaction,
                                             subscribed |-> TRUE, subject |-> "open"]),
                        !.queue = <<queueItem>> \o @]
    IN IF shouldRestartQueue THEN Flush(w1) ELSE w1
    : w \in {world} })

\* _addToQueue, once subscribed
AddToQueue(world, action, reaction) ==
  Val({
    LET id == Len(w.tasks) + 1
        shouldRestartQueue == Len(w.queue) = 0 /\ w.pendingTask = NoTask
        queueItem == [id |-> id, type |-> action.type, value |-> action]
        w1 == [w EXCEPT !.tasks = Append(@, [action |-> action, reaction |-> reaction,
                                             subscribed |-> TRUE, subject |-> "open"]),
                        !.queue = Append(@, queueItem)]
    IN IF shouldRestartQueue THEN Flush(w1) ELSE w1
    : w \in {world} })

\* what the subscriber of pushMediaSegment holds for its callback:
\* inventoryInfos, the append window given to the queue and the chunk
MapReaction(inventoryInfos) == [on |-> "map", action |-> inventoryInfos]

\* x / timescale, the times of the model being multiples of the timescale
InSeconds(x, timescale) == x \div timescale

MathMax(a, b) == IF a >= b THEN a ELSE b

MathMin(a, b) == IF a <= b THEN a ELSE b

\* the data given to insertChunk by the callback of pushMediaSegment
InventoryData(infos) ==
  LET segment == infos.segment
      start0 == IF infos.estimatedStart = Undefined
                  THEN InSeconds(segment.time, segment.timescale)
                  ELSE infos.estimatedStart
      duration == IF infos.estimatedDuration = Undefined
                    THEN InSeconds(segment.duration, segment.timescale)
                    ELSE infos.estimatedDuration
      end0 == start0 + duration
      start == IF infos.safeAppendWindow[1] # Undefined
                 THEN MathMax(start0, infos.safeAppendWindow[1]) ELSE start0
      end == IF infos.safeAppendWindow[2] # Undefined
               THEN MathMin(end0, infos.safeAppendWindow[2]) ELSE end0
  IN [segment |-> segment, chunk |-> infos.chunk, start |-> start, end |-> end]

\* a callback of pushMediaSegment which sends added-segment before it
\* inserts the chunk in the inventory
OnAppendedEmitsFirst(id, infos, updating) ==
  << Entry("getBufferedRanges", id, NULL, FALSE, updating),
     Entry("addedSegment", id, infos.chunk, FALSE, updating),
     Entry("insertChunk", id, InventoryData(infos), FALSE, updating) >>

\* the callback of pushMediaSegment, called when the Observable of the append
\* emits: segmentInventory.insertChunk(inventoryData), then
\* queuedSourceBuffer.getBufferedRanges(), then the added-segment event
OnAppended(id, infos, updating) ==
  << Entry("insertChunk", id, InventoryData(infos), FALSE, updating),
     Entry("getBufferedRanges", id, NULL, FALSE, updating),
     Entry("addedSegment", id, infos.chunk, FALSE, updating) >>

\* Subject.next / Subject.complete / Subject.error on the Subject of
\* subscription id, with what its subscriber does in the callback
Notify(world, id, kind) ==
  Val({
    IF w.tasks[id].subject # "open"
      THEN w
      ELSE
        LET observed == w.tasks[id].subscribed
            reaction == w.tasks[id].reaction
            w1 == Log([w EXCEPT !.tasks[id].subject =
                                   CASE kind = "complete" -> "completed"
                                     [] kind = "error" -> "errored"
                                     [] OTHER -> @],
                      Entry(kind, id, NULL, FALSE, w.sourceBuffer.updating))
            w2 == IF observed /\ reaction.on = kind /\ Len(w1.tasks) < MaxTasks
                    THEN AddToQueue(w1, reaction.action, NoReaction)
                    ELSE w1
        IN IF observed /\ kind # "next" THEN Teardown(w2, id) ELSE w2
    : w \in {world} })

\* an _onError that keeps the last init segment
OnErrorKeepsInit(world) ==
  Val({
    IF w.pendingTask # NoTask
      THEN Notify(w, w.pendingTask.id, "error")
      ELSE w
    : w \in {world} })

\* QueuedSourceBuffer._onError
OnError(world) ==
  Val({
    LET w1 == [w EXCEPT !.lastInitSegment = NULL]
    IN IF w1.pendingTask # NoTask
         THEN Notify(w1, w1.pendingTask.id, "error")
         ELSE w1
    : w \in {world} })

\* tryToChangeSourceBufferType
tryToChangeSourceBufferType(sb, codec) ==
  IF sb.canChangeType /\ ~sb.throwing
    THEN [ok |-> TRUE, sb |-> [sb EXCEPT !.type = codec]]
    ELSE [ok |-> FALSE, sb |-> sb]

\* a call of which the exception is swallowed
MutateSwallows(world, ev, id, data, isInit) ==
  Val({
    LET threw == w.sourceBuffer.updating \/ w.sourceBuffer.throwing
        w1 == Log(w, Entry(ev, id, data, isInit, w.sourceBuffer.updating))
    IN IF threw
         THEN Log(w1, Entry("sberror", 0, "sync", FALSE, w.sourceBuffer.updating))
         ELSE [w1 EXCEPT !.sourceBuffer.updating = TRUE]
    : w \in {world} })

\* SourceBuffer.appendBuffer / SourceBuffer.remove: throws when the
\* SourceBuffer is updating, or for a reason of its own (removed from the
\* MediaSource, quota exceeded: sourceBuffer.throwing), else starts updating
Mutate(world, ev, id, data, isInit) ==
  Val({
    LET threw == w.sourceBuffer.updating \/ w.sourceBuffer.throwing
        w1 == Log(w, Entry(ev, id, data, isInit, w.sourceBuffer.updating))
    IN IF threw
         THEN OnError(Log(w1, Entry("sberror", 0, "sync", FALSE, w.sourceBuffer.updating)))
         ELSE [w1 EXCEPT !.sourceBuffer.updating = TRUE]
    : w \in {world} })

\* a _pushSegmentData that takes the codec of the data as the current codec
\* whether the type of the SourceBuffer could be changed or not
PushSegmentDataSetsCodec(world, data) ==
  Val({
    LET change == tryToChangeSourceBufferType(w.sourceBuffer, data.codec)
        \* codec
        w1 == IF w.currentCodec # data.codec
                THEN IF change.ok
                       THEN [w EXCEPT !.sourceBuffer = change.sb,
                                      !.currentCodec = data.codec]
                       ELSE Log([w EXCEPT !.currentCodec = data.codec],
                                Entry("couldNotUpdateCodec", w.pendingTask.id,
                                      data.codec, FALSE, w.sourceBuffer.updating))
                ELSE w
        \* timestampOffset
        w2 == IF w1.sourceBuffer.timestampOffset # data.timestampOffset
                THEN [w1 EXCEPT !.sourceBuffer.timestampOffset = data.timestampOffset]
                ELSE w1
        \* appendWindow[0]
        aw0 == data.appendWindow[1]
        w3 == IF aw0 = Undefined
                THEN IF w2.sourceBuffer.appendWindowStart > 0
                       THEN [w2 EXCEPT !.sourceBuffer.appendWindowStart = 0]
                       ELSE w2
                ELSE IF aw0 # w2.sourceBuffer.appendWindowStart
                       THEN [w2 EXCEPT
                               !.sourceBuffer.appendWindowEnd =
                                  IF aw0 >= @ THEN aw0 + 1 ELSE @,
                               !.sourceBuffer.appendWindowStart = aw0]
                       ELSE w2
        \* appendWindow[1]
        aw1 == data.appendWindow[2]
        w4 == IF aw1 = Undefined
                THEN IF w3.sourceBuffer.appendWindowEnd # Infinity
                       THEN [w3 EXCEPT !.sourceBuffer.appendWindowEnd = Infinity]
                       ELSE w3
                ELSE IF aw1 # w3.sourceBuffer.appendWindowEnd
                       THEN [w3 EXCEPT !.sourceBuffer.appendWindowEnd = aw1]
                       ELSE w3
        w5 == IF data.isInit
                THEN [w4 EXCEPT !.lastInitSegment = data.segmentData]
                ELSE w4
    IN Mutate(w5, "appendBuffer", w5.pendingTask.id, data.segmentData, data.isInit)
    : w \in {world} })

\* QueuedSourceBuffer._pushSegmentData
PushSegmentData(world, data) ==
  Val({
    LET change == tryToChangeSourceBufferType(w.sourceBuffer, data.codec)
        \* codec
        \* the trace keeps the warning logged when tryToChangeSourceBufferType
        \* returns false
        w1 == IF w.currentCodec # data.codec
                THEN IF change.ok
                       THEN [w EXCEPT !.sourceBuffer = change.sb,
                                      !.currentCodec = data.codec]
                       ELSE Log(w,
                                Entry("couldNotUpdateCodec", w.pendingTask.id,
                                      data.codec, FALSE, w.sourceBuffer.updating))
                ELSE w
        \* timestampOffset
        w2 == IF w1.sourceBuffer.timestampOffset # data.timestampOffset
                THEN [w1 EXCEPT !.sourceBuffer.timestampOffset = data.timestampOffset]
                ELSE w1
        \* appendWindow[0]
        aw0 == data.appendWindow[1]
        w3 == IF aw0 = Undefined
                THEN IF w2.sourceBuffer.appendWindowStart > 0
                       THEN [w2 EXCEPT !.sourceBuffer.appendWindowStart = 0]
                       ELSE w2
                ELSE IF aw0 # w2.sourceBuffer.appendWindowStart
                       THEN [w2 EXCEPT
                               !.sourceBuffer.appendWindowEnd =
                                  IF aw0 >= @ THEN aw0 + 1 ELSE @,
                               !.sourceBuffer.appendWindowStart = aw0]
                       ELSE w2
        \* appendWindow[1]
        aw1 == data.appendWindow[2]
        w4 == IF aw1 = Undefined
                THEN IF w3.sourceBuffer.appendWindowEnd # Infinity
                       THEN [w3 EXCEPT !.sourceBuffer.appendWindowEnd = Infinity]
                       ELSE w3
                ELSE IF aw1 # w3.sourceBuffer.appendWindowEnd
                       THEN [w3 EXCEPT !.sourceBuffer.appendWindowEnd = aw1]
                       ELSE w3
        w5 == IF data.isInit
                THEN [w4 EXCEPT !.lastInitSegment = data.segmentData]
                ELSE w4
    IN Mutate(w5, "appendBuffer", w5.pendingTask.id, data.segmentData, data.isInit)
    : w \in {world} })

\* a _flush that pushes the init segment whatever the last one pushed
HandleTaskNoSkip(world) ==
  Val({
    LET task == w.pendingTask
    IN IF task.type = "Push"
         THEN PushSegmentData([w EXCEPT !.pendingTask.steps = Tail(@)],
                              Head(task.steps))
         ELSE Mutate(w, "remove", task.id, NULL, FALSE)
    : w \in {world} })

\* _flush, from "now handle current task" on
HandleTask(world) ==
  Val({
    LET task == w.pendingTask
    IN IF task.type = "Push"
         THEN LET nextStep == Head(task.steps)
                  w1 == [w EXCEPT !.pendingTask.steps = Tail(@)]
              IN IF nextStep.isInit /\ w1.lastInitSegment = nextStep.segmentData
                   THEN Flush(w1)
                   ELSE PushSegmentData(w1, nextStep)
         ELSE Mutate(w, "remove", task.id, NULL, FALSE)
    : w \in {world} })

\* QueuedSourceBuffer._flush
Flush(world) ==
  Val({
    IF StillProcessing(w)
      THEN w
      ELSE IF w.pendingTask # NoTask
        THEN IF w.pendingTask.type # "Push" \/ Len(w.pendingTask.steps) = 0
               THEN LET id == w.pendingTask.id
                        w1 == [w EXCEPT !.pendingTask = NoTask]
                        w2 == Notify(w1, id, "next")
                        w3 == Notify(w2, id, "complete")
                    IN IF Len(w3.queue) > 0 THEN Flush(w3) ELSE w3
               ELSE HandleTask(w)
        ELSE IF Len(w.queue) = 0
          THEN w
          ELSE LET newQueueItem == Head(w.queue)
                   w1 == [w EXCEPT !.queue = Tail(@),
                                   !.pendingTask = convertQueueItemToTask(newQueueItem)]
               IN IF w1.pendingTask = NoTask
                    THEN Flush(Notify(Notify(w1, newQueueItem.id, "next"),
                                      newQueueItem.id, "complete"))
                    ELSE HandleTask(w1)
    : w \in {world} })

-----------------------------------------------------------------------------
(* One QueuedSourceBuffer, its subscribers and its SourceBuffer *)

\* the queue of the variables, in a step during which appendBuffer and remove
\* throw (throws = TRUE) or not
World(throws) ==
  [bufferType |-> "video", queue |-> queue, pendingTask |-> pendingTask,
   lastInitSegment |-> lastInitSegment, currentCodec |-> currentCodec,
   destroyed |-> destroyed,
   sourceBuffer |-> [sourceBuffer EXCEPT !.throwing = throws],
   tasks |-> tasks, trace |-> trace]

InitWorld == NewQueuedSourceBuffer("video", "codecA")

SetWorldInit ==
  /\ queue = InitWorld.queue
  /\ pendingTask = InitWorld.pendingTask
  /\ lastInitSegment = InitWorld.lastInitSegment
  /\ currentCodec = InitWorld.currentCodec
  /\ destroyed = InitWorld.destroyed
  /\ sourceBuffer = InitWorld.sourceBuffer
  /\ tasks = InitWorld.tasks
  /\ trace = InitWorld.trace

SetWorld(w) ==
  /\ queue' = w.queue
  /\ pendingTask' = w.pendingTask
  /\ lastInitSegment' = w.lastInitSegment
  /\ currentCodec' = w.currentCodec
  /\ destroyed' = w.destroyed
  /\ sourceBuffer' = [w.sourceBuffer EXCEPT !.throwing = FALSE]
  /\ tasks' = w.tasks
  /\ trace' = w.trace

\* QueuedSourceBuffer.dispose, the loop `while (this._queue.length > 0)`
RECURSIVE CompleteQueue(_)
CompleteQueue(world) ==
  Val({
    IF Len(w.queue) > 0
      THEN LET nextElement == Head(w.queue)
           IN CompleteQueue(Notify([w EXCEPT !.queue = Tail(@)],
                                   nextElement.id, "complete"))
      ELSE w
    : w \in {world} })

\* QueuedSourceBuffer.dispose
Dispose(world) ==
  Val({
    LET w1 == [w EXCEPT !.destroyed = TRUE]
        w2 == IF w1.pendingTask # NoTask
                THEN [Notify(w1, w1.pendingTask.id, "complete")
                        EXCEPT !.pendingTask = NoTask]
                ELSE w1
    IN CompleteQueue(w2)
    : w \in {world} })

\* QueuedSourceBuffer.abort: SourceBuffer.abort() stops the update in progress,
\* unless it throws
Abort(world) ==
  Val({
    [Log(w, Entry("abort", 0, NULL, FALSE, w.sourceBuffer.updating))
       EXCEPT !.sourceBuffer.updating = IF w.sourceBuffer.throwing THEN @ ELSE FALSE]
    : w \in {world} })

\* the queue once the step during which its SourceBuffer throws is over
Calm(w) == [w EXCEPT !.sourceBuffer.throwing = FALSE]

\* the SourceBuffer ends its update and sends "updateend"
OnUpdateEnd(world) ==
  Val({
    LET w1 == [w EXCEPT !.sourceBuffer.updating = FALSE]
    IN IF w1.destroyed THEN w1 ELSE Flush(w1)
    : w \in {world} })

\* the SourceBuffer ends its update on an error: it sends "error", then
\* "updateend" unless that event is lost
OnErrorEvent(world, updateEndLost) ==
  Val({
    LET w1 == Log([w EXCEPT !.sourceBuffer.updating = FALSE],
                  Entry("sberror", 0, "event", FALSE, FALSE))
    IN IF w1.destroyed THEN w1
       ELSE IF updateEndLost THEN OnError(w1) ELSE Flush(OnError(w1))
    : w \in {world} })

\* the SourceBuffer ends its update and no event reaches the queue
OnLostUpdateEnd(w) ==
  [w EXCEPT !.sourceBuffer.updating = FALSE]

\* an interval that does nothing
OnIntervalIdle(w) == w

\* the interval of SOURCE_BUFFER_FLUSHING_INTERVAL fires
OnInterval(w) == Flush(w)

\* the reactions a new subscriber may have: the first subscribers are the
\* ones which may subscribe again from a callback
AllowedReactions ==
  IF Len(tasks) < MaxReacting
    THEN Reactions
    ELSE {NoReaction}

PushChunk ==
  /\ Len(tasks) < MaxTasks
  /\ \E a \in PushActions, r \in AllowedReactions, throws \in BOOLEAN :
       \E w \in {AddToQueue(World(throws), a, r)} : SetWorld(w)
  /\ UNCHANGED <<storeVars, orchVars, toolVars>>

RemoveBuffer ==
  /\ Len(tasks) < MaxTasks
  /\ \E r \in AllowedReactions, throws \in BOOLEAN :
       \E w \in {AddToQueue(World(throws), RemoveAction, r)} : SetWorld(w)
  /\ UNCHANGED <<storeVars, orchVars, toolVars>>

Unsubscribe ==
  /\ \E id \in 1..Len(tasks) :
       /\ tasks[id].subscribed
       /\ \E w \in {Teardown(World(FALSE), id)} : SetWorld(w)
  /\ UNCHANGED <<storeVars, orchVars, toolVars>>

UpdateEnd ==
  /\ sourceBuffer.updating
  /\ \E throws \in BOOLEAN :
       \E w \in {OnUpdateEnd(World(throws))} : SetWorld(w)
  /\ UNCHANGED <<storeVars, orchVars, toolVars>>

ErrorEvent ==
  /\ sourceBuffer.updating
  /\ \E updateEndLost \in BOOLEAN, throws \in BOOLEAN :
       \E w \in {OnErrorEvent(World(throws), updateEndLost)} : SetWorld(w)
  /\ UNCHANGED <<storeVars, orchVars, toolVars>>

LostUpdateEnd ==
  /\ sourceBuffer.updating
  /\ \E w \in {OnLostUpdateEnd(World(FALSE))} : SetWorld(w)
  /\ UNCHANGED <<storeVars, orchVars, toolVars>>

WatchdogTick ==
  /\ ~destroyed
  /\ \E throws \in BOOLEAN :
       \E w \in {OnInterval(World(throws))} : SetWorld(w)
  /\ UNCHANGED <<storeVars, orchVars, toolVars>>

DisposeQueue ==
  /\ ~destroyed
  /\ \E throws \in BOOLEAN :
       \E w \in {Dispose(World(throws))} : SetWorld(w)
  /\ UNCHANGED <<storeVars, orchVars, toolVars>>

-----------------------------------------------------------------------------
(* The SourceBuffersStore *)

\* POSSIBLE_BUFFER_TYPES
POSSIBLE_BUFFER_TYPES == <<"audio", "video", "text", "image">>

BufferTypes == {POSSIBLE_BUFFER_TYPES[i] : i \in DOMAIN POSSIBLE_BUFFER_TYPES}

\* the codecs a SourceBuffer is asked for
StoreCodecs == {"codecA", "codecB"}

\* what is subscribed to on the queue of an element
StoreActions == {PushAction("init1", "chunk1", "codecA", 0, <<Undefined, Undefined>>)}

NoCall == [op |-> "none", bufferType |-> NULL, codec |-> NULL, element |-> 0]

\* new SegmentInventory(): nothing inserted
NewSegmentInventory == {}

\* SegmentInventory.reset
SegmentInventoryReset(inventory) == {}

\* shouldHaveNativeSourceBuffer
shouldHaveNativeSourceBuffer(bufferType) ==
  bufferType = "audio" \/ bufferType = "video"

\* the store of the variables
Store ==
  [initializedSourceBuffers |-> initializedSourceBuffers,
   elements |-> elements,
   mediaSourceReadyState |-> mediaSourceReadyState]

\* SourceBuffersStore.get: the element of the type, 0 for null
get(store, bufferType) == store.initializedSourceBuffers[bufferType]

\* { queuedSourceBuffer, segmentInventory: new SegmentInventory() }
NewElement(bufferType, codec) ==
  [queuedSourceBuffer |-> NewQueuedSourceBuffer(bufferType, codec),
   segmentInventory |-> NewSegmentInventory]

\* a createSourceBuffer that aborts the queue memorized for a custom type and
\* replaces it
createSourceBufferAborts(store, bufferType, codec) ==
  LET memorizedSourceBuffer == store.initializedSourceBuffers[bufferType]
      element == Len(store.elements) + 1
      created == [store EXCEPT !.elements = Append(@, NewElement(bufferType, codec)),
                               !.initializedSourceBuffers[bufferType] = element]
  IN IF shouldHaveNativeSourceBuffer(bufferType) /\ memorizedSourceBuffer # 0
       THEN [store |-> store, element |-> memorizedSourceBuffer]
       ELSE IF memorizedSourceBuffer # 0
         THEN [store |-> [created EXCEPT
                            !.elements[memorizedSourceBuffer].queuedSourceBuffer =
                               Abort(@)],
               element |-> element]
         ELSE [store |-> created, element |-> element]

\* SourceBuffersStore.createSourceBuffer: the store after the call and the
\* element returned (0 when the call throws)
createSourceBuffer(store, bufferType, codec) ==
  LET memorizedSourceBuffer == store.initializedSourceBuffers[bufferType]
      element == Len(store.elements) + 1
      created == [store EXCEPT !.elements = Append(@, NewElement(bufferType, codec))]
  IN IF shouldHaveNativeSourceBuffer(bufferType)
       THEN IF memorizedSourceBuffer # 0
              THEN [store |-> store, element |-> memorizedSourceBuffer]
              ELSE [store |-> [created EXCEPT
                                 !.initializedSourceBuffers[bufferType] = element],
                    element |-> element]
       ELSE IF memorizedSourceBuffer # 0
         THEN [store |-> store, element |-> memorizedSourceBuffer]
         ELSE IF bufferType = "text"
           THEN [store |-> [created EXCEPT !.initializedSourceBuffers.text = element],
                 element |-> element]
           ELSE IF bufferType = "image"
             THEN [store |-> created, element |-> element]
             ELSE [store |-> store, element |-> 0]

\* a disposal that leaves the type mapped to its element
disposeSourceBufferKeepsMapping(store, bufferType, abortThrows) ==
  LET memorizedSourceBuffer == store.initializedSourceBuffers[bufferType]
  IN IF memorizedSourceBuffer = 0
       THEN store
       ELSE [store EXCEPT
               !.elements[memorizedSourceBuffer].queuedSourceBuffer = Dispose(@),
               !.elements[memorizedSourceBuffer].segmentInventory =
                  SegmentInventoryReset(@)]

\* SourceBuffersStore.disposeSourceBuffer
disposeSourceBuffer(store, bufferType, abortThrows) ==
  LET memorizedSourceBuffer == store.initializedSourceBuffers[bufferType]
  IN IF memorizedSourceBuffer = 0
       THEN store
       ELSE
         Val({
           LET element == store.elements[memorizedSourceBuffer]
               aborted ==
                 IF ~shouldHaveNativeSourceBuffer(bufferType)
                      \/ store.mediaSourceReadyState = "open"
                   THEN Calm(Abort([disposed EXCEPT !.sourceBuffer.throwing = abortThrows]))
                   ELSE disposed
           IN [store EXCEPT
                 !.elements[memorizedSourceBuffer] =
                    [queuedSourceBuffer |-> aborted,
                     segmentInventory |-> SegmentInventoryReset(element.segmentInventory)],
                 !.initializedSourceBuffers[bufferType] = 0]
           : disposed \in {Dispose(store.elements[memorizedSourceBuffer].queuedSourceBuffer)} })

\* SourceBuffersStore.disposeAll, from the i-th of POSSIBLE_BUFFER_TYPES on
RECURSIVE disposeFrom(_, _, _)
disposeFrom(store, i, abortThrows) ==
  IF i > Len(POSSIBLE_BUFFER_TYPES)
    THEN store
    ELSE LET bufferType == POSSIBLE_BUFFER_TYPES[i]
         IN disposeFrom(IF get(store, bufferType) # 0
                          THEN disposeSourceBuffer(store, bufferType, abortThrows)
                          ELSE store,
                        i + 1, abortThrows)

\* SourceBuffersStore.disposeAll
disposeAll(store, abortThrows) == disposeFrom(store, 1, abortThrows)

SetStore(store) ==
  /\ initializedSourceBuffers' = store.initializedSourceBuffers
  /\ elements' = store.elements
  /\ mediaSourceReadyState' = store.mediaSourceReadyState

Called(op, bufferType, codec, element) ==
  lastCall' = [op |-> op, bufferType |-> bufferType, codec |-> codec,
               element |-> element]

CreateSourceBuffer ==
  /\ \E bufferType \in BufferTypes, codec \in StoreCodecs :
       \E r \in {createSourceBuffer(Store, bufferType, codec)} :
         /\ Len(r.store.elements) <= MaxElements
         /\ SetStore(r.store)
         /\ Called("createSourceBuffer", bufferType, codec, r.element)
  /\ UNCHANGED <<qsbVars, orchVars, toolVars>>

DisposeSourceBuffer ==
  /\ \E bufferType \in BufferTypes, abortThrows \in BOOLEAN :
       \E st \in {disposeSourceBuffer(Store, bufferType, abortThrows)} :
         /\ SetStore(st)
         /\ Called("disposeSourceBuffer", bufferType, NULL, get(Store, bufferType))
  /\ UNCHANGED <<qsbVars, orchVars, toolVars>>

DisposeAll ==
  /\ \E abortThrows \in BOOLEAN :
       \E st \in {disposeAll(Store, abortThrows)} :
         /\ SetStore(st)
         /\ Called("disposeAll", NULL, NULL, 0)
  /\ UNCHANGED <<qsbVars, orchVars, toolVars>>

\* number of subscriptions made on the queues of the first n elements
RECURSIVE StoreTasks(_)
StoreTasks(n) ==
  IF n = 0 THEN 0
  ELSE Len(elements[n].queuedSourceBuffer.tasks) + StoreTasks(n - 1)

\* a subscription to pushChunk of the queue of an element not disposed of
ElementSubscribe ==
  /\ \E i \in DOMAIN elements, a \in StoreActions :
       /\ ~elements[i].queuedSourceBuffer.destroyed
       /\ StoreTasks(Len(elements)) < MaxStoreTasks
       /\ \E w \in {AddToQueue(elements[i].queuedSourceBuffer, a, NoReaction)} :
            elements' = [elements EXCEPT ![i].queuedSourceBuffer = w]
  /\ UNCHANGED <<qsbVars, orchVars, toolVars, initializedSourceBuffers, mediaSourceReadyState, lastCall>>

\* the SourceBuffer of an element ends its update and sends "updateend"
ElementUpdateEnd ==
  /\ \E i \in DOMAIN elements :
       /\ elements[i].queuedSourceBuffer.sourceBuffer.updating
       /\ \E w \in {OnUpdateEnd(elements[i].queuedSourceBuffer)} :
            elements' = [elements EXCEPT ![i].queuedSourceBuffer = w]
  /\ UNCHANGED <<qsbVars, orchVars, toolVars, initializedSourceBuffers, mediaSourceReadyState, lastCall>>

\* SegmentInventory.insertChunk on the inventory of an element
InsertChunk ==
  /\ \E i \in DOMAIN elements, chunk \in Chunks :
       /\ chunk \notin elements[i].segmentInventory
       /\ elements' = [elements EXCEPT ![i].segmentInventory = @ \cup {chunk}]
  /\ UNCHANGED <<qsbVars, orchVars, toolVars, initializedSourceBuffers, mediaSourceReadyState, lastCall>>

\* the MediaSource is closed, or opened again
MediaSourceReadyStateChange ==
  /\ \E readyState \in {"open", "closed"} \ {mediaSourceReadyState} :
       mediaSourceReadyState' = readyState
  /\ UNCHANGED <<qsbVars, orchVars, toolVars, initializedSourceBuffers, elements, lastCall>>

-----------------------------------------------------------------------------
(* The BufferOrchestrator and its PeriodBuffersCreator, one per buffer type *)

\* the buffer types getBufferTypes() may give, in its order
OrchTypes == <<"audio", "video">>

\* the buffer types of getBufferTypes(): the ones which have a creator
bufferTypes == DOMAIN creators

\* a Period of the Manifest
Period(start, end, isLoaded) == [start |-> start, end |-> end, isLoaded |-> isLoaded]

\* a static content of three consecutive Periods
StaticManifest ==
  [periods |-> <<Period(1, 2, TRUE), Period(2, 3, TRUE), Period(3, 4, TRUE)>>,
   isDynamic |-> FALSE, minimumPosition |-> 1, maximumPosition |-> 4]

\* a dynamic content: its second Period is not loaded yet, its last Period
\* has no end yet
DynamicManifest ==
  [periods |-> <<Period(1, 2, TRUE), Period(2, 3, FALSE), Period(3, Undefined, TRUE)>>,
   isDynamic |-> TRUE, minimumPosition |-> 1, maximumPosition |-> 4]

\* a static content of which the second Period starts before the end of the
\* first one
OverlappingManifest ==
  [periods |-> <<Period(1, 3, TRUE), Period(2, 4, TRUE)>>,
   isDynamic |-> FALSE, minimumPosition |-> 1, maximumPosition |-> 4]

Manifests == {StaticManifest, DynamicManifest, OverlappingManifest}

\* the ticks of clock$
Ticks ==
  { [currentTime |-> t, wantedTimeOffset |-> o] : t \in 0..MaxTime, o \in 0..MaxOffset }

\* `wantedTimeOffset + currentTime`
Position(tick) == tick.wantedTimeOffset + tick.currentTime

\* an event sent by the PeriodBuffersCreator of a buffer type; period is the
\* position of the Period in the Manifest, 0 when the event has none
OrchEvent(bufferType, type, period, value) ==
  [bufferType |-> bufferType, type |-> type, period |-> period, value |-> value,
   code |-> NULL]

\* a tick of clock$, as the BufferOrchestrator receives it
Tick(tick) ==
  [bufferType |-> NULL, type |-> "tick", period |-> 0, value |-> Position(tick),
   code |-> NULL]

\* EVENTS.warning(new MediaError(code, ...))
Warning(code) ==
  [bufferType |-> NULL, type |-> "warning", period |-> 0, value |-> 0, code |-> code]

\* Manifest.getPeriodForTime: the Period in which the time is, 0 for undefined
ManifestGetPeriodForTime(time) ==
  LET found == { p \in DOMAIN manifest.periods :
                   /\ manifest.periods[p].start <= time
                   /\ (manifest.periods[p].end = Undefined
                         \/ time < manifest.periods[p].end) }
  IN IF found = {} THEN 0 ELSE CHOOSE p \in found : \A q \in found : p <= q

\* Manifest.getPeriodAfter: the Period coming after, 0 for null
getPeriodAfter(period) ==
  IF manifest.periods[period].end # Undefined /\ period < Len(manifest.periods)
    THEN period + 1
    ELSE 0

\* SortedList.add, the list being sorted by `a.start - b.start`
SortedListAdd(list, period) ==
  LET before == SelectSeq(list, LAMBDA p : p <= period)
      after == SelectSeq(list, LAMBDA p : p > period)
  IN before \o <<period>> \o after

\* position of the first occurrence of the Period in the list, 0 if absent
IndexOfPeriod(list, period) ==
  IF \E i \in DOMAIN list : list[i] = period
    THEN CHOOSE i \in DOMAIN list : list[i] = period /\ \A j \in 1..(i - 1) : list[j] # period
    ELSE 0

\* SortedList.removeElement: removes the first occurrence of the element
SortedListRemoveElement(list, period) ==
  LET index == IndexOfPeriod(list, period)
  IN IF index = 0 THEN list
     ELSE SubSeq(list, 1, index - 1) \o SubSeq(list, index + 1, Len(list))

\* an isOutOfPeriodList for which the end of the last Period is out already
isOutOfPeriodListEndExcluded(periodList, time) ==
  IF Len(periodList) = 0
    THEN TRUE
    ELSE LET head == manifest.periods[periodList[1]]
             last == manifest.periods[periodList[Len(periodList)]]
         IN \/ head.start > time
            \/ (IF last.end = Undefined THEN Infinity ELSE last.end) <= time

\* isOutOfPeriodList
isOutOfPeriodList(periodList, time) ==
  IF Len(periodList) = 0
    THEN TRUE
    ELSE LET head == manifest.periods[periodList[1]]
             last == manifest.periods[periodList[Len(periodList)]]
         IN \/ head.start > time
            \/ (IF last.end = Undefined THEN Infinity ELSE last.end) < time

\* what PeriodBufferCreator holds for one buffer type: the flag and the list
\* of its closure, the chains of Period Buffers it started (one chain per
\* call of startConsecutivePeriodBuffers made with destroyBuffers$, each
\* node of a chain having started the next one), the decipherability flushes
\* it began, the removals they asked the queue for and which are not done
\* (the flush of each, first asked first), and what it sent since the step began
NewCreator(bufferType) ==
  [bufferType |-> bufferType,
   enableOutOfBoundsCheck |-> FALSE,
   periodList |-> <<>>,
   chains |-> <<>>,
   flushes |-> <<>>,
   removals |-> <<>>,
   errored |-> FALSE,
   out |-> <<>>]

Send(c, type, period, value) ==
  [c EXCEPT !.out = Append(@, OrchEvent(c.bufferType, type, period, value))]

\* the destruction signal (destroy$) reaches node i of chain k
KillNode(c, k, i) ==
  Val({
    LET node == d.chains[k][i]
        removed == [d EXCEPT !.periodList = SortedListRemoveElement(@, node.period),
                             !.chains[k][i].state = "cleared"]
    IN CASE node.state = "running" -> Send(removed, "period-buffer-cleared", node.period, 0)
         [] node.state = "resolving" -> removed
         [] OTHER -> d
    : d \in {c} })

\* destroy$ emits for node i of chain k: destroyAll$ first sends the signal
\* on to the next node (destroyNextBuffers$), then ends its own Period Buffer
RECURSIVE DestroyFrom(_, _, _)
DestroyFrom(c, k, i) ==
  IF i > Len(c.chains[k])
    THEN c
    ELSE Val({ [KillNode(d, k, i) EXCEPT !.chains[k] = SubSeq(@, 1, i - 1)]
               : d \in {DestroyFrom(c, k, i + 1)} })

\* destroyBuffers$.next(): every chain, from the one subscribed first
RECURSIVE DestroyChains(_, _)
DestroyChains(c, k) ==
  IF k > Len(c.chains)
    THEN [c EXCEPT !.chains = <<>>]
    ELSE Val({ DestroyChains(d, k + 1) : d \in {DestroyFrom(c, k, 1)} })

\* startConsecutivePeriodBuffers, as the next Period Buffers of chain k or as
\* a new chain (k = 0); getPeriodForTime throws when no Period is found
startConsecutivePeriodBuffers(c, fromTime, k) ==
  Val({
    LET basePeriod == ManifestGetPeriodForTime(fromTime)
        node(state) == [period |-> basePeriod, state |-> state]
        started == [d EXCEPT !.periodList = SortedListAdd(@, basePeriod),
                             !.enableOutOfBoundsCheck = TRUE]
        attach(n) == IF k = 0
                       THEN [started EXCEPT !.chains = Append(@, <<n>>)]
                       ELSE [started EXCEPT !.chains[k] = Append(@, n)]
    IN IF basePeriod = 0
         THEN [Send(d, "error", 0, fromTime) EXCEPT !.errored = TRUE]
         ELSE IF manifest.periods[basePeriod].isLoaded
           THEN Send(attach(node("running")), "period-buffer-created", basePeriod, 0)
           ELSE attach(node("resolving"))
    : d \in {Send(c, "start-consecutive", 0, fromTime)} })

\* a "full-buffer" that starts the next Period Buffers from the start of the
\* next Period, and sends "buffer-complete" for static contents only
OnFullBufferStaticOnly(c, k, i) ==
  Val({
    LET period == d.chains[k][i].period
        fromPeriod == manifest.periods[period]
        nextPeriod == getPeriodAfter(period)
        d1 == IF i < Len(d.chains[k])
                THEN d
                ELSE IF nextPeriod = 0
                  THEN IF manifest.isDynamic THEN d
                       ELSE Send(d, "buffer-complete", 0, 0)
                  ELSE startConsecutivePeriodBuffers(
                         d, manifest.periods[nextPeriod].start, k)
    IN Send(d1, "full-buffer", period, 0)
    : d \in {c} })

\* the Period Buffer of node i of chain k sends "full-buffer": fullBuffer$
\* emits, nextPeriodBuffer$ (an exhaustMap) ignores it while the next Period
\* Buffers it started are there
OnFullBuffer(c, k, i) ==
  Val({
    LET period == d.chains[k][i].period
        fromPeriod == manifest.periods[period]
        nextPeriod == getPeriodAfter(period)
        d1 == IF i < Len(d.chains[k])
                THEN d
                ELSE IF nextPeriod = 0 \/ fromPeriod.end = Undefined
                  THEN Send(d, "buffer-complete", 0, 0)
                  ELSE startConsecutivePeriodBuffers(
                         d,
                         IF manifest.periods[nextPeriod].start >= fromPeriod.end
                           THEN manifest.periods[nextPeriod].start
                           ELSE fromPeriod.end,
                         k)
    IN Send(d1, "full-buffer", period, 0)
    : d \in {c} })

\* an "active-buffer" that leaves the next Period Buffers running
OnActiveBufferKeepsNext(c, k, i) ==
  Send(c, "active-buffer", c.chains[k][i].period, 0)

\* the Period Buffer of node i of chain k sends "active-buffer":
\* destroyNextBuffers$ emits
OnActiveBuffer(c, k, i) ==
  Val({ Send(d, "active-buffer", c.chains[k][i].period, 0)
        : d \in {DestroyFrom(c, k, i + 1)} })

\* a filter that lets every "needs-media-source-reload" through
OnNeedsMediaSourceReloadAlways(c, k, i) ==
  Send(c, "needs-media-source-reload", c.chains[k][i].period, 0)

\* the Period Buffer of node i of chain k sends "needs-media-source-reload":
\* let through when its Period is the first of the list
OnNeedsMediaSourceReload(c, k, i) ==
  LET period == c.chains[k][i].period
  IN IF Len(c.periodList) = 0 \/ c.periodList[1] # period
       THEN c
       ELSE Send(c, "needs-media-source-reload", period, 0)

\* resolvePartialPeriod sends the loaded Period of the last node of chain k
OnPeriodLoaded(c, k) ==
  LET i == Len(c.chains[k])
      period == c.chains[k][i].period
  IN Send([c EXCEPT !.periodList =
                       SortedListAdd(SortedListRemoveElement(@, period), period),
                    !.chains[k][i].state = "running"],
          "period-buffer-created", period, 0)

\* an endOfCurrentBuffer$ which waits for a position after the end of the Period
RECURSIVE EndOfBuffersAfterEnd(_, _, _, _)
EndOfBuffersAfterEnd(c, k, i, position) ==
  IF k > Len(c.chains)
    THEN c
    ELSE IF i > Len(c.chains[k])
      THEN EndOfBuffersAfterEnd(c, k + 1, 1, position)
      ELSE Val({ EndOfBuffersAfterEnd(d, k, i + 1, position)
                 : d \in { LET node == c.chains[k][i]
                               end == manifest.periods[node.period].end
                           IN IF /\ node.state = "running"
                                 /\ end # Undefined
                                 /\ position > end
                                THEN KillNode(c, k, i)
                                ELSE c } })

\* the clock announces a position: every Period Buffer running for a Period
\* ending at or before it is ended (endOfCurrentBuffer$), node after node
RECURSIVE EndOfBuffers(_, _, _, _)
EndOfBuffers(c, k, i, position) ==
  IF k > Len(c.chains)
    THEN c
    ELSE IF i > Len(c.chains[k])
      THEN EndOfBuffers(c, k + 1, 1, position)
      ELSE Val({ EndOfBuffers(d, k, i + 1, position)
                 : d \in { LET node == c.chains[k][i]
                               end == manifest.periods[node.period].end
                           IN IF /\ node.state = "running"
                                 /\ end # Undefined
                                 /\ position >= end
                                THEN KillNode(c, k, i)
                                ELSE c } })

\* the flushes from position f on which wait for a tick (`clock$.pipe(take(1))`)
\* get it: "needs-decipherability-flush" is sent and the Period Buffers are
\* started again from the position of the tick
RECURSIVE OnFlushTick(_, _, _)
OnFlushTick(c, tick, f) ==
  IF f > Len(c.flushes) \/ c.errored
    THEN c
    ELSE IF c.flushes[f].state # "waiting"
      THEN OnFlushTick(c, tick, f + 1)
      ELSE Val({ OnFlushTick(d, tick, f + 1)
                 : d \in { startConsecutivePeriodBuffers(
                             Send([c EXCEPT !.flushes[f].state = "done"],
                                  "needs-decipherability-flush", 0, Position(tick)),
                             Position(tick), 0) } })

\* the filter of restartBuffersWhenOutOfBounds$
ShouldRestart(c, tick) ==
  /\ c.enableOutOfBoundsCheck
  /\ ManifestGetPeriodForTime(Position(tick)) # 0
  /\ isOutOfPeriodList(c.periodList, Position(tick))

\* a tick of clock$, seen by restartBuffersWhenOutOfBounds$ first, then by
\* the Period Buffers and the flushes there before the tick
OnTick(c, tick) ==
  Val({
    IF ShouldRestart(d, tick)
      THEN OnFlushTick(
             startConsecutivePeriodBuffers(
               DestroyChains(
                 Send([d EXCEPT !.enableOutOfBoundsCheck = FALSE],
                      "out-of-bounds", 0, Position(tick)),
                 1),
               Position(tick), 0),
             tick, 1)
      ELSE OnFlushTick(EndOfBuffers(d, 1, 1, Position(tick)), tick, 1)
    : d \in {c} })

\* the concat of a flush asks the queue for its next removal, or waits for a
\* tick when it has none left
NextRemoval(c, f) ==
  IF c.flushes[f].left > 0
    THEN Send([c EXCEPT !.flushes[f].left = @ - 1,
                        !.removals = Append(@, f)],
              "remove-buffer", 0, f)
    ELSE [c EXCEPT !.flushes[f].state = "waiting"]

\* a flush which asks the queue for all its removals at once
StartFlushAllAtOnce(c, rangesToClean) ==
  LET f == Len(c.flushes) + 1
  IN [c EXCEPT !.flushes = Append(@, [left |-> 0,
                                      state |-> IF rangesToClean = 0 THEN "waiting"
                                                ELSE "removing"]),
               !.removals = @ \o [r \in 1..rangesToClean |-> f]]

\* the observableConcat of handleDecipherabilityUpdate$ is subscribed to
StartFlush(c, rangesToClean) ==
  NextRemoval([c EXCEPT !.flushes = Append(@, [left |-> rangesToClean,
                                               state |-> "removing"])],
              Len(c.flushes) + 1)

\* handleDecipherabilityUpdate$: a "decipherabilityUpdate" of the Manifest,
\* getBlacklistedRanges giving rangesToClean ranges
OnDecipherabilityUpdate(c, hasType, initialized, rangesToClean) ==
  IF ~hasType \/ ~initialized
    THEN c
    ELSE Val({ StartFlush(d, rangesToClean)
               : d \in { DestroyChains(
                           Send([c EXCEPT !.enableOutOfBoundsCheck = FALSE],
                                "destroy-buffers", 0, 0),
                           1) } })

\* the queue is done with the removal asked first
OnRemovalDone(c) ==
  NextRemoval([c EXCEPT !.removals = Tail(@)], Head(c.removals))

\* an outOfManifest$ for which the maximum position is after the Manifest
outOfManifestFromMaximum(tick) ==
  LET position == Position(tick)
  IN IF position < manifest.minimumPosition
       THEN <<Warning("MEDIA_TIME_BEFORE_MANIFEST")>>
       ELSE IF position >= manifest.maximumPosition
         THEN <<Warning("MEDIA_TIME_AFTER_MANIFEST")>>
         ELSE <<>>

\* outOfManifest$
outOfManifest(tick) ==
  LET position == Position(tick)
  IN IF position < manifest.minimumPosition
       THEN <<Warning("MEDIA_TIME_BEFORE_MANIFEST")>>
       ELSE IF position > manifest.maximumPosition
         THEN <<Warning("MEDIA_TIME_AFTER_MANIFEST")>>
         ELSE <<>>

\* an endOfStream$ with its two events exchanged
endOfStreamExchanged(areComplete) ==
  IF areComplete
    THEN OrchEvent(NULL, "resume-stream", 0, 0)
    ELSE OrchEvent(NULL, "end-of-stream", 0, 0)

\* endOfStream$: `areComplete ? EVENTS.endOfStream() : EVENTS.resumeStream()`
endOfStream(areComplete) ==
  IF areComplete
    THEN OrchEvent(NULL, "end-of-stream", 0, 0)
    ELSE OrchEvent(NULL, "resume-stream", 0, 0)

\* every buffer type is complete
AllComplete(isComplete) == \A t \in DOMAIN isComplete : isComplete[t]

\* areBuffersComplete, on the events from the i-th on: a type is complete
\* from its "buffer-complete" to its next "active-buffer"; what all types
\* being complete is, is told each time it changes
RECURSIVE areBuffersComplete(_, _, _)
areBuffersComplete(events, i, isComplete) ==
  IF i > Len(events)
    THEN [out |-> <<>>, isComplete |-> isComplete]
    ELSE
      LET evt == events[i]
          updated == IF evt.type = "buffer-complete"
                       THEN [isComplete EXCEPT ![evt.bufferType] = TRUE]
                       ELSE IF evt.type = "active-buffer"
                         THEN [isComplete EXCEPT ![evt.bufferType] = FALSE]
                         ELSE isComplete
          told == IF AllComplete(updated) # AllComplete(isComplete)
                    THEN <<endOfStream(AllComplete(updated))>>
                    ELSE <<>>
      IN Val({ [out |-> <<evt>> \o told \o rest.out, isComplete |-> rest.isComplete]
               : rest \in {areBuffersComplete(events, i + 1, updated)} })

\* what the creators sent during the step, from the one of the i-th type on
RECURSIVE Outs(_, _)
Outs(cs, i) ==
  IF i > Len(OrchTypes)
    THEN <<>>
    ELSE (IF OrchTypes[i] \in DOMAIN cs THEN cs[OrchTypes[i]].out ELSE <<>>)
         \o Outs(cs, i + 1)

\* the BufferOrchestrator after a step: its creators, and the events it sent
SetOrchestrator(cs, warnings) ==
  \E r \in {areBuffersComplete(warnings \o Outs(cs, 1), 1, complete)} :
    /\ creators' = [t \in bufferTypes |-> [cs[t] EXCEPT !.out = <<>>]]
    /\ complete' = r.isComplete
    /\ emitted' = r.out
    /\ UNCHANGED manifest

\* no stream of the orchestrator has ended on an error
OrchRunning == \A t \in bufferTypes : ~creators[t].errored

\* the running Period Buffers of a creator: <<chain, node>>
RunningNodes(c) ==
  { <<k, i>> \in (DOMAIN c.chains) \X (1..Len(manifest.periods)) :
      i <= Len(c.chains[k]) /\ c.chains[k][i].state = "running" }

\* clock$ emits
OrchTick ==
  /\ OrchRunning
  /\ \E tick \in Ticks :
       SetOrchestrator([t \in bufferTypes |-> OnTick(creators[t], tick)],
                       <<Tick(tick)>> \o outOfManifest(tick))
  /\ UNCHANGED <<qsbVars, storeVars, toolVars>>

OneCreator(t, c) ==
  /\ SetOrchestrator([creators EXCEPT ![t] = c], <<>>)
  /\ UNCHANGED <<qsbVars, storeVars, toolVars>>

\* a Period Buffer sends "full-buffer"
PeriodBufferFull ==
  /\ OrchRunning
  /\ \E t \in bufferTypes :
       \E n \in RunningNodes(creators[t]) :
         \E c \in {OnFullBuffer(creators[t], n[1], n[2])} : OneCreator(t, c)

\* a Period Buffer sends "active-buffer"
PeriodBufferActive ==
  /\ OrchRunning
  /\ \E t \in bufferTypes :
       \E n \in RunningNodes(creators[t]) :
         \E c \in {OnActiveBuffer(creators[t], n[1], n[2])} : OneCreator(t, c)

\* a Period Buffer sends "needs-media-source-reload"
PeriodBufferNeedsReload ==
  /\ OrchRunning
  /\ \E t \in bufferTypes :
       \E n \in RunningNodes(creators[t]) :
         \E c \in {OnNeedsMediaSourceReload(creators[t], n[1], n[2])} : OneCreator(t, c)

\* resolvePartialPeriod sends the Period, loaded
PeriodLoaded ==
  /\ OrchRunning
  /\ \E t \in bufferTypes :
       \E k \in DOMAIN creators[t].chains :
         /\ Len(creators[t].chains[k]) > 0
         /\ creators[t].chains[k][Len(creators[t].chains[k])].state = "resolving"
         /\ \E c \in {OnPeriodLoaded(creators[t], k)} : OneCreator(t, c)

\* the Manifest sends "decipherabilityUpdate"
DecipherabilityUpdate ==
  /\ OrchRunning
  /\ \E hasType \in SUBSET bufferTypes, initialized \in SUBSET bufferTypes,
        rangesToClean \in 0..MaxRanges :
       /\ hasType \cap initialized # {}
       /\ \A t \in hasType \cap initialized : Len(creators[t].flushes) < MaxFlushes
       /\ SetOrchestrator(
            [t \in bufferTypes |->
               OnDecipherabilityUpdate(creators[t], t \in hasType, t \in initialized,
                                       rangesToClean)],
            <<>>)
  /\ UNCHANGED <<qsbVars, storeVars, toolVars>>

\* the queue of a buffer type ends a removal
RemovalDone ==
  /\ OrchRunning
  /\ \E t \in bufferTypes :
       /\ Len(creators[t].removals) > 0
       /\ \E c \in {OnRemovalDone(creators[t])} : OneCreator(t, c)

\* PeriodBufferCreator(bufferType, { initialTime, ... }), subscribed to
NewPeriodBufferCreator(bufferType, initialTime) ==
  [startConsecutivePeriodBuffers(NewCreator(bufferType), initialTime, 0)
     EXCEPT !.out = <<>>]

\* an orchestrator nothing is asked of
OrchIdle ==
  /\ manifest = StaticManifest
  /\ creators = [t \in {"video"} |-> NewCreator(t)]
  /\ complete = [t \in {"video"} |-> FALSE]
  /\ emitted = <<>>


Min(S) == CHOOSE x \in S : \A y \in S : x <= y

Max(S) == CHOOSE x \in S : \A y \in S : x >= y

-----------------------------------------------------------------------------
(* PersistentSessionsStore *)

\* number of entries of a PersistentSessionsStore
MaxEntries == 2

\* initialization data: arrays of numbers, named by a number
InitDatas == {11, 12, 21}

InitDataTypes == {"cenc", "webm"}

SessionIds == {"s1", "s2"}

\* hashBuffer: two of the initialization data have the same hash
hashBuffer(initData) == initData % 10

\* the entry add() makes
PersistentEntry(sessionId, initData, initDataType) ==
  [version |-> 1, sessionId |-> sessionId, initData |-> initData,
   initDataHash |-> hashBuffer(initData), initDataType |-> initDataType]

\* an entry saved by a previous version: its initData is the hash
LegacyEntry(sessionId, initData, initDataType) ==
  [version |-> 0, sessionId |-> sessionId, initData |-> hashBuffer(initData),
   initDataHash |-> 0, initDataType |-> initDataType]

NoPersistentCall ==
  [op |-> "none", initData |-> 0, initDataType |-> NULL, warning |-> NULL,
   saved |-> FALSE, sessionId |-> "", replaced |-> FALSE]

\* new PersistentSessionsStore(storage), storage.load() giving `loaded`
NewPersistentSessionsStore(loaded) ==
  [entries |-> loaded, storage |-> loaded, lastCall |-> NoPersistentCall]

\* PersistentSessionsStore.getIndex, -1 when no entry is found
RECURSIVE getIndexFrom(_, _, _, _)
getIndexFrom(entries, initData, initDataType, i) ==
  IF i >= Len(entries)
    THEN -1
    ELSE LET entry == entries[i + 1]
         IN IF /\ entry.initDataType = initDataType
               /\ IF entry.version = 1
                    THEN /\ entry.initDataHash = hashBuffer(initData)
                         /\ entry.initData = initData
                    ELSE entry.initData = hashBuffer(initData)
              THEN i
              ELSE getIndexFrom(entries, initData, initDataType, i + 1)

getIndex(store, initData, initDataType) ==
  getIndexFrom(store.entries, initData, initDataType, 0)

\* Array.prototype.splice(start, 1): a negative start counts from the end
ArraySplice(array, start) ==
  LET from == IF start < 0 THEN (IF Len(array) + start < 0 THEN 0 ELSE Len(array) + start)
              ELSE start
  IN IF from >= Len(array)
       THEN array
       ELSE [i \in 1..(Len(array) - 1) |-> IF i <= from THEN array[i] ELSE array[i + 1]]

\* PersistentSessionsStore._save: storage.save(entries), which may throw
Save(store, saveThrows) ==
  [store EXCEPT !.storage = IF saveThrows THEN @ ELSE store.entries,
                !.lastCall.saved = TRUE]

\* PersistentSessionsStore.get: <<>> for null
PersistentGet(store, initData, initDataType) ==
  LET index == getIndex(store, initData, initDataType)
  IN IF index = -1 THEN <<>> ELSE <<store.entries[index + 1]>>

\* PersistentSessionsStore.delete
PersistentDelete(store, initData, initDataType, saveThrows) ==
  LET index == getIndex(store, initData, initDataType)
      called == [store EXCEPT !.lastCall =
                   [op |-> "delete", initData |-> initData, initDataType |-> initDataType,
                    warning |-> NULL, saved |-> FALSE, sessionId |-> "",
                    replaced |-> FALSE]]
  IN IF index # -1
       THEN [called EXCEPT !.lastCall.warning = "not found"]
       ELSE Save([called EXCEPT !.entries = ArraySplice(@, index),
                                !.lastCall.warning = "delete"],
                 saveThrows)

\* PersistentSessionsStore.add
PersistentAdd(store, initData, initDataType, sessionId, saveThrows) ==
  LET index == getIndex(store, initData, initDataType)
      called == [store EXCEPT !.lastCall =
                   [op |-> "add", initData |-> initData, initDataType |-> initDataType,
                    warning |-> NULL, saved |-> FALSE, sessionId |-> sessionId,
                    replaced |-> index # -1
                                 /\ store.entries[index + 1].sessionId # sessionId]]
      deleted == IF index # -1
                   THEN PersistentDelete(called, initData, initDataType, saveThrows)
                   ELSE called
  IN IF sessionId = ""
       THEN [called EXCEPT !.lastCall.warning = "invalid"]
       ELSE IF index # -1 /\ store.entries[index + 1].sessionId = sessionId
         THEN called
         ELSE Save([deleted EXCEPT
                      !.entries = Append(@, PersistentEntry(sessionId, initData,
                                                            initDataType)),
                      !.lastCall.op = "add",
                      !.lastCall.sessionId = sessionId,
                      !.lastCall.replaced = called.lastCall.replaced],
                   saveThrows)

\* PersistentSessionsStore.dispose
PersistentDispose(store, saveThrows) ==
  Save([store EXCEPT !.entries = <<>>,
                     !.lastCall = [NoPersistentCall EXCEPT !.op = "dispose"]],
       saveThrows)

-----------------------------------------------------------------------------
(* LoadedSessionsStore *)

\* number of MediaKeySessions created on the MediaKeys
MaxSessions == 2

NoCloseAll == [subscribed |-> FALSE, stored |-> {}, pending |-> {}, emitted |-> 0]

\* new LoadedSessionsStore(mediaKeys): `storage` holds the entries of the
\* storages of every initDataType, `created` counts the sessions of the
\* MediaKeys, `closing` are those of which close() was called and `settled`
\* those of which the closing has ended
NewLoadedSessionsStore ==
  [storage |-> {}, created |-> 0, closing |-> {}, settled |-> {},
   closeAll |-> NoCloseAll,
   lastCall |-> [op |-> "none", warning |-> NULL]]

\* LoadedSessionsStore._getEntry
GetEntry(store, initData, initDataType) ==
  { entry \in store.storage :
      entry.initData = initData /\ entry.initDataType = initDataType }

\* LoadedSessionsStore._removeFromStorage
RemoveFromStorage(store, initData, initDataType) ==
  [store EXCEPT !.storage = @ \ GetEntry(store, initData, initDataType)]

\* LoadedSessionsStore.getAll
getAll(store) == store.storage

\* the subscription to closeSession(initData, initDataType)
closeSession(store, initData, initDataType) ==
  LET entry == GetEntry(store, initData, initDataType)
      removed == RemoveFromStorage(store, initData, initDataType)
  IN IF entry = {}
       THEN [removed EXCEPT !.lastCall.warning = "No session found"]
       ELSE [removed EXCEPT !.closing = @ \cup { e.session : e \in entry }]

\* closeAllSessions which subscribes to the closeSession of every entry before
\* it empties the storages
closeAllSessionsClosesFirst(store) ==
  LET previousEntries == getAll(store)
      sessions == { e.session : e \in previousEntries }
      pending == sessions \ store.settled
  IN [store EXCEPT !.storage = {},
                   !.closing = @ \cup sessions,
                   !.closeAll = [subscribed |-> TRUE, stored |-> sessions,
                                 pending |-> pending,
                                 emitted |-> IF pending = {} THEN 1 ELSE 0],
                   !.lastCall = [op |-> "closeAllSessions", warning |-> NULL]]

RECURSIVE SubscribeAll(_, _)
\* the subscription of merge(...disposed): each closeSession in turn
SubscribeAll(store, entries) ==
  IF entries = {}
    THEN store
    ELSE LET entry == CHOOSE e \in entries : TRUE
         IN SubscribeAll(closeSession(store, entry.initData, entry.initDataType),
                         entries \ {entry})

\* the subscription to closeAllSessions(): the closeSession observables are
\* made from the entries, the storages are replaced by empty ones, and only
\* then are the observables subscribed to
closeAllSessions(store) ==
  LET previousEntries == getAll(store)
      called == [store EXCEPT !.lastCall = [op |-> "closeAllSessions", warning |-> NULL]]
      emptied == [called EXCEPT !.storage = {}]
      subscribed == SubscribeAll(emptied, previousEntries)
      pending == (subscribed.closing \ called.closing) \ subscribed.settled
  IN [subscribed EXCEPT
        !.closeAll = [subscribed |-> TRUE,
                      stored |-> { e.session : e \in previousEntries },
                      pending |-> pending,
                      emitted |-> IF pending = {} THEN 1 ELSE 0]]

\* the closing of a session ends, with or without an error (catchError):
\* the closeSession observable completes, and closeAllSessions emits null once
\* all of them have
CloseSettled(store, session) ==
  LET pending == store.closeAll.pending \ {session}
  IN [store EXCEPT
        !.settled = @ \cup {session},
        !.closeAll.pending = pending,
        !.closeAll.emitted = IF session \in store.closeAll.pending /\ pending = {}
                               THEN @ + 1 ELSE @,
        !.lastCall = [op |-> "closed", warning |-> NULL]]

\* createSession, for initialization data which are not stored
createSession(store, initData, initDataType) ==
  [store EXCEPT
     !.created = @ + 1,
     !.storage = @ \cup {[initData |-> initData, initDataType |-> initDataType,
                          session |-> store.created + 1]},
     !.lastCall = [op |-> "createSession", warning |-> NULL]]

-----------------------------------------------------------------------------
(* TimelineRepresentationIndex *)

\* An attribute of an S element which is missing or invalid is <<>>, one
\* which has the value v is <<v>>.
SNode(t, d, r) == [t |-> t, d |-> d, r |-> r]

\* toIndexTime and fromIndexTime of index_helpers
toIndexTime(time, index) == time * index.timescale + index.indexTimeOffset

fromIndexTime(time, index) == (time - index.indexTimeOffset) \div index.timescale

NoIndexSegment == [start |-> Undefined, duration |-> Undefined, repeatCount |-> 0]

\* fromParsedSToIndexSegment as built in dist: a missing duration is taken
\* from the start of the next S element
fromParsedSToIndexSegmentDist(item, previousItem, nextItem, timelineStart) ==
  LET start == IF item.t # <<>> THEN item.t
               ELSE IF previousItem = <<>> THEN <<timelineStart>>
               ELSE <<previousItem[1].start +
                      previousItem[1].duration * (previousItem[1].repeatCount + 1)>>
      duration == IF item.d = <<>> /\ nextItem # <<>> /\ nextItem[1].t # <<>> /\ start # <<>>
                    THEN <<nextItem[1].t[1] - start[1]>>
                    ELSE item.d
  IN IF start # <<>> /\ duration # <<>>
       THEN <<[start |-> start[1], duration |-> duration[1],
               repeatCount |-> IF item.r = <<>> THEN 0 ELSE item.r[1]]>>
       ELSE <<>>

RECURSIVE constructTimelineDistFrom(_, _, _, _)
constructTimelineDistFrom(sElements, scaledStart, i, timeline) ==
  IF i > Len(sElements)
    THEN timeline
    ELSE constructTimelineDistFrom(
           sElements, scaledStart, i + 1,
           timeline \o fromParsedSToIndexSegmentDist(
                         sElements[i],
                         IF timeline = <<>> THEN <<>> ELSE <<timeline[Len(timeline)]>>,
                         IF i = Len(sElements) THEN <<>> ELSE <<sElements[i + 1]>>,
                         scaledStart))

\* constructTimeline as built in dist
constructTimelineDist(sElements, scaledStart) ==
  constructTimelineDistFrom(sElements, scaledStart, 1, <<>>)

\* fromParsedSToIndexSegment: `threw` when it throws, else the segment, or
\* <<>> for null
fromParsedSToIndexSegment(start, duration, repeatCount, previousItem, timelineStart) ==
  LET realStart == IF start = <<>>
                     THEN IF previousItem = <<>>
                            THEN <<timelineStart>>
                            ELSE <<previousItem[1].start +
                                   previousItem[1].duration *
                                     (previousItem[1].repeatCount + 1)>>
                     ELSE start
  IN IF duration = <<>>
       THEN [threw |-> TRUE, segment |-> <<>>]
       ELSE [threw |-> FALSE,
             segment |-> <<[start |-> realStart[1], duration |-> duration[1],
                            repeatCount |-> IF repeatCount = <<>> THEN 0
                                            ELSE repeatCount[1]]>>]

RECURSIVE constructTimelineFrom(_, _, _, _)
constructTimelineFrom(sElements, scaledStart, i, segments) ==
  IF i > Len(sElements)
    THEN [threw |-> FALSE, segments |-> segments]
    ELSE LET newSeg == fromParsedSToIndexSegment(
                         sElements[i].t, sElements[i].d, sElements[i].r,
                         IF segments = <<>> THEN <<>> ELSE <<segments[Len(segments)]>>,
                         scaledStart)
         IN IF newSeg.threw
              THEN [threw |-> TRUE, segments |-> <<>>]
              ELSE constructTimelineFrom(sElements, scaledStart, i + 1,
                                         segments \o newSeg.segment)

\* constructTimeline
constructTimeline(timelineElement, scaledStart) ==
  constructTimelineFrom(timelineElement, scaledStart, 1, <<>>)

NoTimelineCall ==
  [op |-> "none", error |-> NULL, constructed |-> <<>>, result |-> <<>>]

\* new TimelineRepresentationIndex(index, context) with the period start
\* taken on the scale of the index, unshifted
TimelineRepresentationIndexUnshifted(timelineElt, timescale, presentationTimeOffset, periodStart, minimumBound) ==
  [timelineElt |-> timelineElt,
   index |-> [indexTimeOffset |-> presentationTimeOffset - periodStart * timescale,
              timescale |-> timescale, parsed |-> FALSE, timeline |-> <<>>],
   scaledPeriodStart |-> periodStart * timescale,
   minimumBound |-> minimumBound,
   periodStart |-> periodStart,
   presentationTimeOffset |-> presentationTimeOffset]

\* new TimelineRepresentationIndex(index, context), for a period without
\* end; minimumBound is what its manifestBoundsCalculator answers
TimelineRepresentationIndex(timelineElt, timescale, presentationTimeOffset, periodStart, minimumBound) ==
  LET scaledStart == periodStart * timescale
      index == [indexTimeOffset |-> presentationTimeOffset - scaledStart,
                timescale |-> timescale, parsed |-> FALSE, timeline |-> <<>>]
  IN [timelineElt |-> timelineElt,
      index |-> index,
      scaledPeriodStart |-> toIndexTime(periodStart, index),
      minimumBound |-> minimumBound,
      periodStart |-> periodStart,
      presentationTimeOffset |-> presentationTimeOffset]

\* the starts of the segments of an entry of a timeline, and of a timeline
EntryStarts(entry) ==
  { entry.start + k * entry.duration : k \in 0..entry.repeatCount }

TimelineStarts(timeline) ==
  UNION { EntryStarts(timeline[i]) : i \in DOMAIN timeline }

RECURSIVE clearTimelineFromPosition(_, _)
\* clearTimelineFromPosition: drops from the front of the timeline what
\* starts before the first available position
clearTimelineFromPosition(timeline, firstAvailablePosition) ==
  IF timeline = <<>> \/ timeline[1].start >= firstAvailablePosition
    THEN timeline
    ELSE IF timeline[1].repeatCount <= 0
      THEN clearTimelineFromPosition(Tail(timeline), firstAvailablePosition)
      ELSE IF Len(timeline) > 1 /\ timeline[2].start <= firstAvailablePosition
        THEN clearTimelineFromPosition(Tail(timeline), firstAvailablePosition)
        ELSE LET left == { st \in EntryStarts(timeline[1]) : st >= firstAvailablePosition }
             IN IF timeline[1].duration <= 0
                  THEN timeline
                  ELSE IF left = {}
                    THEN clearTimelineFromPosition(Tail(timeline), firstAvailablePosition)
                    ELSE <<[timeline[1] EXCEPT
                              !.start = Min(left),
                              !.repeatCount = Cardinality(left) - 1]>>
                         \o Tail(timeline)

\* the lazy parsing at the head of every method: the timeline is constructed
\* when it is null, unless constructTimeline throws
Parsed(ti) ==
  IF ti.index.parsed
    THEN [threw |-> FALSE, constructed |-> <<>>, ti |-> ti]
    ELSE LET built == constructTimeline(ti.timelineElt, ti.scaledPeriodStart)
         IN IF built.threw
              THEN [threw |-> TRUE, constructed |-> <<>>, ti |-> ti]
              ELSE [threw |-> FALSE, constructed |-> <<built.segments>>,
                    ti |-> [ti EXCEPT !.index.parsed = TRUE,
                                      !.index.timeline = built.segments]]

\* getFirstPosition which answers from the timeline as it was constructed
getFirstPositionOfElement(ti) ==
  LET built == constructTimeline(ti.timelineElt, ti.scaledPeriodStart)
  IN IF built.threw \/ built.segments = <<>>
       THEN <<>>
       ELSE <<fromIndexTime(built.segments[1].start, ti.index)>>

\* TimelineRepresentationIndex._refreshTimeline
refreshTimeline(ti) ==
  IF ti.minimumBound = Undefined
    THEN ti
    ELSE [ti EXCEPT !.index.timeline =
            clearTimelineFromPosition(@, toIndexTime(ti.minimumBound, ti.index))]

\* getFirstPosition: <<>> for null
getFirstPosition(ti) ==
  IF ti.index.timeline = <<>>
    THEN <<>>
    ELSE <<fromIndexTime(ti.index.timeline[1].start, ti.index)>>

\* getSegments(from, duration): the times, in seconds, of the segments of the
\* timeline which intersect [from, from + duration]
getSegments(ti, from, duration) ==
  LET up == toIndexTime(from, ti.index)
      to == toIndexTime(from + duration, ti.index)
  IN { fromIndexTime(st, ti.index) :
         st \in { x \in TimelineStarts(ti.index.timeline) :
                    \E i \in DOMAIN ti.index.timeline :
                      /\ x \in EntryStarts(ti.index.timeline[i])
                      /\ x < to
                      /\ x + ti.index.timeline[i].duration > up } }

\* updateSegmentTimeline(oldTimeline, newTimeline): the entries of the old
\* timeline which start before the new one are kept and the new one comes
\* after them; it throws when the new one starts after the end of the old one
updateSegmentTimeline(oldTimeline, newTimeline) ==
  LET newStart == newTimeline[1].start
      last == oldTimeline[Len(oldTimeline)]
      oldEnd == last.start + last.duration * (last.repeatCount + 1)
      kept == SelectSeq(oldTimeline, LAMBDA e : e.start < newStart)
      cut == IF kept = <<>> THEN kept
             ELSE LET e == kept[Len(kept)]
                      before == { st \in EntryStarts(e) : st < newStart }
                  IN SubSeq(kept, 1, Len(kept) - 1)
                     \o <<[e EXCEPT !.repeatCount = Cardinality(before) - 1]>>
  IN IF oldTimeline = <<>> THEN [threw |-> FALSE, timeline |-> newTimeline]
     ELSE IF newTimeline = <<>> THEN [threw |-> FALSE, timeline |-> oldTimeline]
     ELSE IF oldEnd < newStart THEN [threw |-> TRUE, timeline |-> oldTimeline]
     ELSE [threw |-> FALSE, timeline |-> cut \o newTimeline]

\* TimelineRepresentationIndex._replace
replace(ti, newIndex) ==
  [ti EXCEPT !.timelineElt = newIndex.timelineElt,
             !.index = newIndex.index,
             !.scaledPeriodStart = newIndex.scaledPeriodStart,
             !.minimumBound = newIndex.minimumBound,
             !.periodStart = newIndex.periodStart,
             !.presentationTimeOffset = newIndex.presentationTimeOffset]

\* TimelineRepresentationIndex._update: [threw, error, ti]
update(ti, newIndex) ==
  LET mine == Parsed(ti)
      theirs == Parsed(newIndex)
      merged == updateSegmentTimeline(mine.ti.index.timeline, theirs.ti.index.timeline)
  IN IF mine.threw THEN [error |-> "TOTO", ti |-> ti]
     ELSE IF theirs.threw THEN [error |-> "TOTO", ti |-> mine.ti]
     ELSE IF merged.threw THEN [error |-> "MANIFEST_UPDATE_ERROR", ti |-> mine.ti]
     ELSE [error |-> NULL,
           ti |-> [mine.ti EXCEPT !.index.timeline = merged.timeline,
                                  !.scaledPeriodStart = newIndex.scaledPeriodStart,
                                  !.minimumBound = newIndex.minimumBound,
                                  !.periodStart = newIndex.periodStart]]

\* what the head of a query does: the lazy parsing, then the clearing of what
\* is before the first available position; `evicted` are the times of the
\* segments cleared
Refreshed(ti) ==
  LET parsed == Parsed(ti)
      cleared == refreshTimeline(parsed.ti)
  IN [threw |-> parsed.threw,
      parsed |-> IF parsed.constructed = <<>> THEN <<>> ELSE <<ti>>,
      constructed |-> parsed.constructed,
      ti |-> IF parsed.threw THEN ti ELSE cleared,
      evicted |-> IF parsed.threw THEN {}
                  ELSE { fromIndexTime(st, ti.index) :
                           st \in TimelineStarts(parsed.ti.index.timeline)
                                  \ TimelineStarts(cleared.index.timeline) }]

\* a call of a query on the index of the state; `result` is what it returns
QueryCall(state, op, from, duration) ==
  LET head == Refreshed(state.this)
      first == getFirstPosition(head.ti)
  IN [state EXCEPT
        !.this = head.ti,
        !.cleared = @ \cup head.evicted,
        !.clearedSince = @ \cup head.evicted,
        !.first = IF op = "getFirstPosition" /\ ~head.threw /\ first # <<>> THEN first ELSE @,
        !.firstSince = IF op = "getFirstPosition" /\ ~head.threw /\ first # <<>>
                         THEN first ELSE @,
        !.lastCall = [op |-> op,
                      error |-> IF head.threw THEN "TOTO" ELSE NULL,
                      parsed |-> head.parsed,
                      constructed |-> head.constructed,
                      previousFirst |-> state.first,
                      previousSince |-> state.firstSince,
                      result |-> IF head.threw THEN <<>>
                                 ELSE IF op = "getFirstPosition" THEN first
                                 ELSE <<getSegments(head.ti, from, duration)>>]]

\* a call of _update or of _replace with a new index
UpdateCall(state, op, newIndex) ==
  LET updated == IF op = "_replace"
                   THEN [error |-> NULL, ti |-> replace(state.this, newIndex)]
                   ELSE update(state.this, newIndex)
      mine == Parsed(state.this)
  IN [state EXCEPT
        !.this = updated.ti,
        !.clearedSince = {},
        !.firstSince = <<>>,
        !.updates = @ + 1,
        !.lastCall = [op |-> op,
                      error |-> updated.error,
                      parsed |-> IF op = "_update" /\ mine.constructed # <<>>
                                   THEN <<state.this>> ELSE <<>>,
                      constructed |-> IF op = "_update" THEN mine.constructed ELSE <<>>,
                      previousFirst |-> state.first,
                      previousSince |-> <<>>,
                      result |-> <<>>]]

-----------------------------------------------------------------------------
(* manifestUpdateScheduler *)

\* the last instant of the clock (performance.now())
MaxClock == 4

\* number of Manifests fetched
MaxFetches == 3

\* config.FAILED_PARTIAL_UPDATE_MANIFEST_REFRESH_DELAY, in instants
FAILED_PARTIAL_UPDATE_MANIFEST_REFRESH_DELAY == 2

isNonEmptyString(x) == x # NULL /\ x # ""

NoFetch == [url |-> NULL, fullRefresh |-> FALSE, recovering |-> FALSE]

NoFailure == [at |-> 0, sendingTime |-> <<>>]

\* startManualRefreshTimer which emits at once
startManualRefreshTimerAtOnce(now, wantedDelay, minimumManifestUpdateInterval, lastManifestRequestTime) ==
  now

\* startManualRefreshTimer, subscribed to at `now`: the instant at which the
\* timer emits
startManualRefreshTimer(now, wantedDelay, minimumManifestUpdateInterval, lastManifestRequestTime) ==
  LET timeSinceLastRefresh == IF lastManifestRequestTime = <<>> THEN 0
                              ELSE now - lastManifestRequestTime[1]
      minInterval == MathMax(minimumManifestUpdateInterval - timeSinceLastRefresh, 0)
  IN now + MathMax(wantedDelay - timeSinceLastRefresh, minInterval)

\* manifestUpdateScheduler(arguments), subscribed to: handleManifestRefresh$
\* waits for the first reason to refresh the Manifest
NewScheduler(url, manifestUpdateUrl, minimumManifestUpdateInterval) ==
  [phase |-> "armed",
   now |-> 0,
   manifest |-> [url |-> url, version |-> 0, updates |-> 0],
   manifestUpdateUrl |-> manifestUpdateUrl,
   minimumManifestUpdateInterval |-> minimumManifestUpdateInterval,
   fetch |-> NoFetch,
   fetches |-> 0,
   timer |-> 0,
   failure |-> NoFailure,
   lastCall |-> [op |-> "none", warning |-> NULL, recovered |-> FALSE]]

\* refreshManifest(completeRefresh), up to the call of fetchManifest
refreshManifest(sch, completeRefresh, recovering) ==
  LET fullRefresh == completeRefresh \/ sch.manifestUpdateUrl = NULL
      refreshURL == IF fullRefresh THEN sch.manifest.url ELSE sch.manifestUpdateUrl
  IN IF ~isNonEmptyString(refreshURL)
       THEN [sch EXCEPT !.phase = "stopped",
                        !.lastCall.warning = "Init: Cannot refresh the manifest: no url"]
       ELSE [sch EXCEPT !.phase = "fetching",
                        !.fetches = @ + 1,
                        !.fetch = [url |-> refreshURL, fullRefresh |-> fullRefresh,
                                   recovering |-> recovering]]

\* what refreshManifest does with the value of fetchManifest: the Manifest
\* is replaced, or updated, and handleManifestRefresh$ is called again,
\* unless manifest.update throws, in which case the timer of the full
\* refresh is started
Fetched(sch, newUrl, newSendingTime, updateThrows) ==
  LET called == [sch EXCEPT !.lastCall = [op |-> "fetched", warning |-> NULL,
                                          recovered |-> FALSE],
                            !.fetch = NoFetch]
  IN IF sch.fetch.fullRefresh
       THEN [called EXCEPT !.manifest = [url |-> newUrl, version |-> sch.fetches,
                                         updates |-> 0],
                           !.phase = "armed",
                           !.failure = NoFailure,
                           !.lastCall.recovered = sch.fetch.recovering]
       ELSE IF ~updateThrows
         THEN [called EXCEPT !.manifest.updates = sch.fetches,
                             !.phase = "armed"]
         ELSE [called EXCEPT
                 !.phase = "waiting",
                 !.timer = startManualRefreshTimer(
                             sch.now, FAILED_PARTIAL_UPDATE_MANIFEST_REFRESH_DELAY,
                             sch.minimumManifestUpdateInterval, newSendingTime),
                 !.failure = [at |-> sch.now, sendingTime |-> newSendingTime],
                 !.lastCall.warning = "MUS: Attempt to update Manifest failed"]

-----------------------------------------------------------------------------
(* VideoThumbnailLoader *)

\* number of jobs a VideoThumbnailLoader starts
MaxJobs == 3

\* the times setTime is called with
ThumbnailTimes == {1, 5, 11, 21}

\* getContentInfos and index.getSegments: the Representation and the segment
\* of a time; the segments last ten seconds and the Representation changes
\* at the second period
ContentOf(time) ==
  [representation |-> IF time < 20 THEN "r1" ELSE "r2",
   segment |-> time \div 10]

\* new VideoThumbnailLoader(videoElement, player): `jobs` are the jobs
\* started, `finallies` those of which the promise is settled and the
\* `finally` callback still to run, `requests` the requests of the segment
\* loaders, `contentInfos` the Representation of the init segment of the
\* SourceBuffer of the element, `buffered` the segments in it
NewVideoThumbnailLoader ==
  [currentJob |-> 0,
   jobs |-> <<>>,
   finallies |-> {},
   requests |-> <<>>,
   contentInfos |-> NULL,
   buffered |-> {},
   lastCall |-> [op |-> "none", time |-> 0, returned |-> 0, started |-> FALSE]]

\* job.stop(): killJob$ emits, and the race ends with the ABORTED error
\* unless the promise of the job is already settled
StopJob(loader, job) ==
  IF job = 0 \/ loader.jobs[job].status # "loading"
    THEN loader
    ELSE [loader EXCEPT !.jobs[job].status = "rejected",
                        !.jobs[job].error = "ABORTED",
                        !.finallies = @ \cup {job}]

\* VideoThumbnailLoader.startJob
startJob(loader, content, time) ==
  LET job == Len(loader.jobs) + 1
  IN [loader EXCEPT
        !.jobs = Append(@, [representation |-> content.representation,
                            segment |-> content.segment,
                            time |-> time,
                            stage |-> "source",
                            status |-> "loading",
                            error |-> NULL]),
        !.currentJob = job,
        !.lastCall.returned = job,
        !.lastCall.started = TRUE]

\* VideoThumbnailLoader.setTime, for a player which has a Manifest with a
\* thumbnail at every time asked
setTime(loader, time) ==
  LET content == ContentOf(time)
      called == [loader EXCEPT !.lastCall = [op |-> "setTime", time |-> time,
                                             returned |-> 0, started |-> FALSE]]
      current == loader.currentJob
  IN IF <<content.representation, content.segment>> \in loader.buffered
       THEN [called EXCEPT !.lastCall.op = "loaded"]
       ELSE IF /\ current # 0
               /\ loader.jobs[current].representation = content.representation
               /\ loader.jobs[current].segment = content.segment
         THEN [called EXCEPT !.lastCall.returned = current]
         ELSE startJob(StopJob(called, current), content, time)

\* the `finally` callback of the promise of a job
Finally(loader, job) ==
  [loader EXCEPT !.currentJob = 0, !.finallies = @ \ {job}]

\* a job goes one stage further: the SourceBuffer is there and the init
\* segment is requested, unless the element has the one of the
\* Representation (initSourceBuffer$); the init segment is appended and the
\* segment is requested; the segment is pushed and the promise resolves. The
\* `finally` callback of the promise runs before anything else.
JobStep(loader, job) ==
  LET j == loader.jobs[job]
      called == [loader EXCEPT !.lastCall = [op |-> "step", time |-> j.time,
                                             returned |-> job, started |-> FALSE]]
      media == [called EXCEPT
                  !.jobs[job].stage = "media",
                  !.requests = Append(@, [job |-> job, kind |-> "media",
                                          representation |-> j.representation,
                                          segment |-> j.segment])]
  IN IF j.stage = "source"
       THEN IF loader.contentInfos = j.representation
              THEN media
              ELSE [called EXCEPT
                      !.jobs[job].stage = "init",
                      !.contentInfos = j.representation,
                      !.requests = Append(@, [job |-> job, kind |-> "init",
                                              representation |-> j.representation,
                                              segment |-> j.segment])]
       ELSE IF j.stage = "init"
         THEN media
         ELSE Finally([called EXCEPT !.jobs[job].stage = "done",
                                     !.jobs[job].status = "resolved",
                                     !.buffered = @ \cup {<<j.representation, j.segment>>}],
                      job)

\* a request or an append of a job fails: its promise rejects with
\* LOADING_ERROR
JobError(loader, job) ==
  Finally([loader EXCEPT !.jobs[job].status = "rejected",
                         !.jobs[job].error = "LOADING_ERROR",
                         !.lastCall = [op |-> "error", time |-> loader.jobs[job].time,
                                       returned |-> job, started |-> FALSE]],
          job)

ToolsFrame(changed) ==
  /\ UNCHANGED <<qsbVars, storeVars, orchVars>>
  /\ changed # "persistentSessions" => UNCHANGED persistentSessions
  /\ changed # "loadedSessions" => UNCHANGED loadedSessions
  /\ changed # "timelineIndex" => UNCHANGED timelineIndex
  /\ changed # "updateScheduler" => UNCHANGED updateScheduler
  /\ changed # "thumbnailLoader" => UNCHANGED thumbnailLoader

PersistentAddCall ==
  /\ \E initData \in InitDatas, initDataType \in InitDataTypes,
        sessionId \in SessionIds \cup {""}, saveThrows \in BOOLEAN :
       \E st \in {PersistentAdd(persistentSessions, initData, initDataType, sessionId,
                                saveThrows)} :
         /\ Len(st.entries) <= MaxEntries
         /\ persistentSessions' = st
  /\ ToolsFrame("persistentSessions")

PersistentDeleteCall ==
  /\ \E initData \in InitDatas, initDataType \in InitDataTypes, saveThrows \in BOOLEAN :
       persistentSessions' = PersistentDelete(persistentSessions, initData, initDataType,
                                              saveThrows)
  /\ ToolsFrame("persistentSessions")

PersistentDisposeCall ==
  /\ \E saveThrows \in BOOLEAN :
       persistentSessions' = PersistentDispose(persistentSessions, saveThrows)
  /\ ToolsFrame("persistentSessions")

LoadedCreateSession ==
  /\ loadedSessions.created < MaxSessions
  /\ \E initData \in {11, 12}, initDataType \in {"cenc", NULL} :
       /\ GetEntry(loadedSessions, initData, initDataType) = {}
       /\ loadedSessions' = createSession(loadedSessions, initData, initDataType)
  /\ ToolsFrame("loadedSessions")

LoadedCloseSession ==
  /\ \E initData \in {11, 12}, initDataType \in {"cenc", NULL} :
       loadedSessions' =
         closeSession([loadedSessions EXCEPT
                         !.lastCall = [op |-> "closeSession", warning |-> NULL]],
                      initData, initDataType)
  /\ ToolsFrame("loadedSessions")

LoadedCloseAllSessions ==
  /\ loadedSessions.closeAll.pending = {}
  /\ loadedSessions' = closeAllSessions(loadedSessions)
  /\ ToolsFrame("loadedSessions")

\* the closing of a session ends
LoadedCloseSettled ==
  /\ \E session \in loadedSessions.closing \ loadedSessions.settled :
       loadedSessions' = CloseSettled(loadedSessions, session)
  /\ ToolsFrame("loadedSessions")

\* session.closed resolves for a session which nobody asked to close: its
\* entry is removed if it is still the one stored
LoadedSessionClosed ==
  /\ \E entry \in loadedSessions.storage :
       /\ entry.session \notin loadedSessions.closing
       /\ loadedSessions' =
            [RemoveFromStorage(loadedSessions, entry.initData, entry.initDataType)
               EXCEPT !.closing = @ \cup {entry.session},
                      !.settled = @ \cup {entry.session},
                      !.lastCall = [op |-> "session.closed", warning |-> NULL]]
  /\ ToolsFrame("loadedSessions")

\* the last second of the positions asked and of the first available ones
MaxPosition == 3

\* number of manifest updates an index goes through
MaxUpdates == 1

\* timelines, in seconds from the start of the period: without `t`, with a
\* `d` missing before a known `t`, with the last `d` missing, complete, and
\* complete and starting later
TimelineShapes ==
  { << SNode(<<>>, <<1>>, <<>>), SNode(<<>>, <<1>>, <<1>>) >>,
    << SNode(<<0>>, <<>>, <<>>), SNode(<<1>>, <<1>>, <<>>) >>,
    << SNode(<<0>>, <<1>>, <<>>), SNode(<<1>>, <<>>, <<>>) >>,
    << SNode(<<0>>, <<1>>, <<1>>), SNode(<<2>>, <<1>>, <<>>) >>,
    << SNode(<<1>>, <<1>>, <<>>), SNode(<<2>>, <<1>>, <<1>>) >> }

\* the S elements of a shape, on the timescale and at the offset of an index
TimelineElement(shape, timescale, presentationTimeOffset) ==
  [i \in DOMAIN shape |->
     SNode(IF shape[i].t = <<>> THEN <<>>
           ELSE <<presentationTimeOffset + shape[i].t[1] * timescale>>,
           IF shape[i].d = <<>> THEN <<>> ELSE <<shape[i].d[1] * timescale>>,
           shape[i].r)]

\* the indexes a manifest can bring
TimelineIndexes ==
  { TimelineRepresentationIndex(
      TimelineElement(shape, timescale, offset * timescale),
      timescale, offset * timescale, periodStart, minimumBound) :
      shape \in TimelineShapes, timescale \in {1, 2}, offset \in {0, 1},
      periodStart \in {0, 1}, minimumBound \in {Undefined, 1} }

NewTimelineState(ti) ==
  [this |-> ti, cleared |-> {}, clearedSince |-> {}, first |-> <<>>, firstSince |-> <<>>,
   updates |-> 0,
   lastCall |-> [op |-> "none", error |-> NULL, parsed |-> <<>>, constructed |-> <<>>,
                 previousFirst |-> <<>>, previousSince |-> <<>>, result |-> <<>>]]

\* the indexes an update of the manifest can bring for the Representation of
\* an index: another timeline and other bounds, for the same period
UpdatesOf(ti) ==
  { newIndex \in TimelineIndexes :
      /\ newIndex.index.timescale = ti.index.timescale
      /\ newIndex.periodStart = ti.periodStart
      /\ newIndex.presentationTimeOffset = ti.presentationTimeOffset }

TimelineGetFirstPosition ==
  /\ timelineIndex' = QueryCall(timelineIndex, "getFirstPosition", 0, 0)
  /\ ToolsFrame("timelineIndex")

TimelineGetSegments ==
  /\ \E from \in 0..MaxPosition, duration \in {2} :
       timelineIndex' = QueryCall(timelineIndex, "getSegments", from, duration)
  /\ ToolsFrame("timelineIndex")

\* the first available position, as the manifestBoundsCalculator of the
\* index gives it, advances
TimelineAdvance ==
  /\ \E bound \in 0..MaxPosition :
       /\ timelineIndex.this.minimumBound = Undefined
            \/ bound > timelineIndex.this.minimumBound
       /\ timelineIndex' = [timelineIndex EXCEPT !.this.minimumBound = bound,
                                               !.lastCall.op = "advance"]
  /\ ToolsFrame("timelineIndex")

TimelineUpdate ==
  /\ timelineIndex.updates < MaxUpdates
  /\ \E newIndex \in UpdatesOf(timelineIndex.this) :
       timelineIndex' = UpdateCall(timelineIndex, "_update", newIndex)
  /\ ToolsFrame("timelineIndex")

TimelineReplace ==
  /\ timelineIndex.updates < MaxUpdates
  /\ \E newIndex \in UpdatesOf(timelineIndex.this) :
       timelineIndex' = UpdateCall(timelineIndex, "_replace", newIndex)
  /\ ToolsFrame("timelineIndex")

\* the lifetime of the Manifest is over, a buffer asks for a refresh, or the
\* Manifest has expired: the first of them (take(1)) refreshes the Manifest
SchedulerRefresh ==
  /\ updateScheduler.phase = "armed"
  /\ updateScheduler.fetches < MaxFetches
  /\ \E completeRefresh \in BOOLEAN :
       updateScheduler' =
         refreshManifest([updateScheduler EXCEPT
                            !.lastCall = [op |-> "refresh", warning |-> NULL,
                                          recovered |-> FALSE]],
                         completeRefresh, FALSE)
  /\ ToolsFrame("updateScheduler")

\* fetchManifest emits the Manifest it fetched and parsed
SchedulerFetched ==
  /\ updateScheduler.phase = "fetching"
  /\ \E newUrl \in {"", "url"}, updateThrows \in BOOLEAN,
        newSendingTime \in {<<>>} \cup { <<t>> : t \in 0..updateScheduler.now } :
       updateScheduler' = Fetched(updateScheduler, newUrl, newSendingTime, updateThrows)
  /\ ToolsFrame("updateScheduler")

\* fetchManifest fails: so does the scheduler
SchedulerFetchError ==
  /\ updateScheduler.phase = "fetching"
  /\ updateScheduler' = [updateScheduler EXCEPT
                           !.phase = "errored", !.fetch = NoFetch,
                           !.lastCall = [op |-> "error", warning |-> NULL,
                                         recovered |-> FALSE]]
  /\ ToolsFrame("updateScheduler")

\* the timer started after a failed update emits: refreshManifest(true)
SchedulerTimer ==
  /\ updateScheduler.phase = "waiting"
  /\ updateScheduler.now >= updateScheduler.timer
  /\ updateScheduler.fetches < MaxFetches
  /\ updateScheduler' =
       refreshManifest([updateScheduler EXCEPT
                          !.lastCall = [op |-> "timer", warning |-> NULL,
                                        recovered |-> FALSE]],
                       TRUE, TRUE)
  /\ ToolsFrame("updateScheduler")

\* time passes
SchedulerTick ==
  /\ updateScheduler.now < MaxClock
  /\ updateScheduler.phase \in {"armed", "fetching", "waiting"}
  /\ updateScheduler' = [updateScheduler EXCEPT !.now = @ + 1, !.lastCall.op = "tick"]
  /\ ToolsFrame("updateScheduler")

ThumbnailSetTime ==
  /\ \E time \in ThumbnailTimes :
       \E loader \in {setTime(thumbnailLoader, time)} :
         /\ Len(loader.jobs) <= MaxJobs
         /\ thumbnailLoader' = loader
  /\ ToolsFrame("thumbnailLoader")

\* the microtask of a promise settled by a stop()
ThumbnailFinally ==
  /\ \E job \in thumbnailLoader.finallies :
       thumbnailLoader' = [Finally(thumbnailLoader, job) EXCEPT
                             !.lastCall = [op |-> "finally", time |-> 0,
                                           returned |-> job, started |-> FALSE]]
  /\ ToolsFrame("thumbnailLoader")

\* an event of a job in progress; the microtasks run before it
ThumbnailJobStep ==
  /\ thumbnailLoader.finallies = {}
  /\ \E job \in DOMAIN thumbnailLoader.jobs :
       /\ thumbnailLoader.jobs[job].status = "loading"
       /\ thumbnailLoader' = JobStep(thumbnailLoader, job)
  /\ ToolsFrame("thumbnailLoader")

ThumbnailJobError ==
  /\ thumbnailLoader.finallies = {}
  /\ \E job \in DOMAIN thumbnailLoader.jobs :
       /\ thumbnailLoader.jobs[job].status = "loading"
       /\ thumbnailLoader.jobs[job].stage # "source"
       /\ thumbnailLoader' = JobError(thumbnailLoader, job)
  /\ ToolsFrame("thumbnailLoader")

\* the tools, as they are constructed
ToolsIdle ==
  /\ persistentSessions = NewPersistentSessionsStore(<<>>)
  /\ loadedSessions = NewLoadedSessionsStore
  /\ timelineIndex = NewTimelineState(CHOOSE ti \in TimelineIndexes : TRUE)
  /\ updateScheduler = NewScheduler("url", NULL, 0)
  /\ thumbnailLoader = NewVideoThumbnailLoader

\* a store nothing is asked of
StoreIdle ==
  /\ initializedSourceBuffers = [t \in BufferTypes |-> 0]
  /\ elements = <<>>
  /\ mediaSourceReadyState = "open"
  /\ lastCall = NoCall

Init ==
  /\ SetWorldInit
  /\ ToolsIdle
  /\ StoreIdle
  /\ OrchIdle

\* the times the content is played from
InitialTimes == {1, 2}

\* a BufferOrchestrator on one of the contents, subscribed to, getBufferTypes()
\* having given types
NewBufferOrchestrator(types) ==
  /\ manifest \in Manifests
  /\ \E initialTime \in InitialTimes :
       creators = [t \in types |-> NewPeriodBufferCreator(t, initialTime)]
  /\ complete = [t \in types |-> FALSE]
  /\ emitted = <<>>

\* a content of one buffer type
OrchInit ==
  /\ SetWorldInit
  /\ ToolsIdle
  /\ StoreIdle
  /\ NewBufferOrchestrator({"video"})

OrchNext ==
  \/ OrchTick
  \/ PeriodBufferFull
  \/ PeriodBufferActive
  \/ PeriodBufferNeedsReload
  \/ PeriodLoaded
  \/ DecipherabilityUpdate
  \/ RemovalDone

OrchSpec == OrchInit /\ [][OrchNext]_vars

\* a content of two buffer types
StreamInit ==
  /\ SetWorldInit
  /\ ToolsIdle
  /\ StoreIdle
  /\ NewBufferOrchestrator({"audio", "video"})

\* no Representation of the content becomes undecipherable
StreamNext ==
  \/ OrchTick
  \/ PeriodBufferFull
  \/ PeriodBufferActive
  \/ PeriodLoaded

StreamSpec == StreamInit /\ [][StreamNext]_vars

Next ==
  \/ PushChunk
  \/ RemoveBuffer
  \/ Unsubscribe
  \/ UpdateEnd
  \/ ErrorEvent
  \/ LostUpdateEnd
  \/ WatchdogTick

Spec == Init /\ [][Next]_vars

StoreNext ==
  \/ CreateSourceBuffer
  \/ DisposeSourceBuffer
  \/ DisposeAll
  \/ ElementSubscribe
  \/ ElementUpdateEnd
  \/ InsertChunk
  \/ MediaSourceReadyStateChange

StoreSpec == Init /\ [][StoreNext]_vars

\* the SourceBuffer ends the update in progress, one way or another
SourceBufferSettles ==
  \/ UpdateEnd
  \/ ErrorEvent
  \/ LostUpdateEnd

FairNext ==
  \/ (Len(tasks) < MaxFairTasks /\ PushChunk)
  \/ (Len(tasks) < MaxFairTasks /\ RemoveBuffer)
  \/ Unsubscribe
  \/ SourceBufferSettles
  \/ WatchdogTick

\* the interval keeps firing and an update of the SourceBuffer always ends
FairSpec ==
  /\ Init
  /\ [][FairNext]_vars
  /\ WF_vars(WatchdogTick)
  /\ WF_vars(SourceBufferSettles)

-----------------------------------------------------------------------------
(* What the trace tells *)

\* positions of the calls to SourceBuffer.appendBuffer and SourceBuffer.remove
Calls == {k \in DOMAIN trace : trace[k].ev \in {"appendBuffer", "remove"}}

\* positions of the calls appending an init segment
InitCalls == {k \in Calls : trace[k].ev = "appendBuffer" /\ trace[k].isInit}

\* positions of the errors the SourceBuffer reported (event or exception)
Errors == {k \in DOMAIN trace : trace[k].ev = "sberror"}

\* positions of the notifications sent on the Subject of a subscription
Notifs(id) ==
  {k \in DOMAIN trace : trace[k].id = id /\ trace[k].ev \in {"next", "complete", "error"}}

\* the subscription whose call the SourceBuffer was processing at position k:
\* the one of the last call made before k (0 if none)
InFlightAt(k) ==
  LET before == {j \in Calls : j < k}
  IN IF before = {} THEN 0 ELSE trace[Max(before)].id

\* subscriptions to pushChunk
Pushes == {id \in DOMAIN tasks : tasks[id].action.type = "Push"}

\* two consecutive pushChunk subscriptions carrying the same init segment
ConsecutiveSameInit(a, b) ==
  /\ a \in Pushes /\ b \in Pushes /\ a < b
  /\ \A c \in Pushes : ~(a < c /\ c < b)
  /\ tasks[a].action.initSegment # NULL
  /\ tasks[a].action.initSegment = tasks[b].action.initSegment

\* the subscription was unsubscribed while its item was waiting in the queue
CancelledInQueue(id) ==
  /\ ~tasks[id].subscribed
  /\ tasks[id].subject = "open"
  /\ pendingTask.id # id
  /\ IndexOf(queue, id) = 0

-----------------------------------------------------------------------------
(* Claims *)

\* C1: the queue never calls appendBuffer or remove while the SourceBuffer's
\* `updating` flag is true, whatever the interleaving of subscriptions,
\* unsubscriptions, "updateend" and "error" events and timer ticks.
C1_NoCallWhileUpdating ==
  \A k \in Calls : ~trace[k].updating

\* C1 witness: a second call has been made, the SourceBuffer is updating and
\* another task is waiting in the queue.
C1_Witness ==
  /\ Cardinality(Calls) >= 2
  /\ sourceBuffer.updating
  /\ Len(queue) > 0

C4_UnsubscribeStep ==
  \A id \in DOMAIN tasks :
    (/\ tasks[id].subscribed
     /\ Len(tasks') = Len(tasks)
     /\ ~tasks'[id].subscribed
     /\ tasks'[id].subject = "open")
    => /\ queue' = SelectSeq(queue, LAMBDA item : item.id # id)
       /\ pendingTask' = pendingTask
       /\ sourceBuffer' = sourceBuffer
       /\ trace' = trace

C4_CancelledNeverCalled ==
  /\ \A id \in DOMAIN tasks :
       CancelledInQueue(id) => \A k \in Calls : trace[k].id # id
  /\ \A k \in DOMAIN trace : trace[k].ev # "abort"
  /\ pendingTask = NoTask => Len(queue) = 0

C4_Unsubscription ==
  [][C4_UnsubscribeStep]_vars /\ []C4_CancelledNeverCalled

\* C4 witness: a task was cancelled in the queue between two others, both of
\* which were run, and a task abandoned in flight has completed.
C4_Witness ==
  /\ Len(tasks) = 3
  /\ CancelledInQueue(2)
  /\ ~tasks[1].subscribed /\ tasks[1].subject = "completed"
  /\ \E k \in Calls : trace[k].id = 1
  /\ \E k \in Calls : trace[k].id = 3

\* C5 as stated: for two consecutive pushChunk carrying the same init
\* segment, appendBuffer is called at most once with that init segment.
C5_InitAppendedAtMostOnce ==
  \A a, b \in DOMAIN tasks :
    ConsecutiveSameInit(a, b) =>
      Cardinality({k \in InitCalls : trace[k].id \in {a, b}}) <= 1

\* C5 amended: for two consecutive pushChunk carrying the same init segment,
\* appendBuffer is called a second time with that init segment only if the
\* SourceBuffer reported an error since the first of the two calls.
C5_InitAppendedOnceUnlessError ==
  \A a, b \in DOMAIN tasks :
    ConsecutiveSameInit(a, b) =>
      \A j, k \in InitCalls :
        (trace[j].id = a /\ trace[k].id = b) =>
          \E e \in Errors : j < e /\ e < k

\* C5 witness: the second of two consecutive pushes of the same init segment
\* has appended its chunk, and the init segment was appended once.
C5_Witness ==
  \E a, b \in DOMAIN tasks :
    /\ ConsecutiveSameInit(a, b)
    /\ \E k \in Calls : trace[k].id = b /\ ~trace[k].isInit
    /\ \E k \in InitCalls : trace[k].id = a
    /\ Cardinality({k \in InitCalls : trace[k].id \in {a, b}}) = 1

\* C6: after the SourceBuffer reported an error during a task, the chunk of
\* a later push carrying an init segment is appended only after that init
\* segment has been appended again, even if it is the init segment pushed
\* before the error.
C6_InitPushedAgainAfterError ==
  \A k \in Calls :
    LET id == trace[k].id
        before == {e \in Errors : e < k}
    IN (/\ trace[k].ev = "appendBuffer"
        /\ ~trace[k].isInit
        /\ tasks[id].action.initSegment # NULL
        /\ before # {}
        /\ InFlightAt(Max(before)) # id)
       => \E j \in InitCalls :
            /\ Max(before) < j /\ j < k
            /\ trace[j].data = tasks[id].action.initSegment

\* C6 witness: an init segment was appended, an error was reported, and a
\* later push of the same init segment has appended it again and then its chunk.
C6_Witness ==
  \E j, k \in InitCalls : \E e \in Errors : \E m \in Calls :
    /\ j < e /\ e < k /\ k < m
    /\ trace[j].data = trace[k].data
    /\ trace[j].id < trace[k].id
    /\ trace[m].id = trace[k].id /\ ~trace[m].isInit

\* C7: with the interval firing and every update of the SourceBuffer ending,
\* every task submitted and not cancelled in the queue is eventually settled
\* (its Subject completes or fails), also when "updateend" is lost or when
\* appendBuffer/remove throws.
C7_EventuallySettled ==
  \A id \in 1..(MaxFairTasks + MaxReacting) :
    (id \in DOMAIN tasks)
      ~> (id \in DOMAIN tasks /\ (tasks[id].subject # "open" \/ CancelledInQueue(id)))

\* C7 witness: the update of the task in flight has ended, no event and no
\* error has reached the queue, and another task waits behind it.
C7_Witness ==
  /\ pendingTask # NoTask
  /\ ~sourceBuffer.updating
  /\ Errors = {}
  /\ tasks[pendingTask.id].subject = "open"
  /\ Len(queue) > 0

-----------------------------------------------------------------------------
(* The store: what is read of its elements *)

\* the elements of a type whose queue was created and not disposed of
LiveQueues(bufferType) ==
  {i \in DOMAIN elements :
     /\ elements[i].queuedSourceBuffer.bufferType = bufferType
     /\ ~elements[i].queuedSourceBuffer.destroyed}

\* number of calls of SourceBuffer.abort made by a queue
AbortCalls(w) == Cardinality({k \in DOMAIN w.trace : w.trace[k].ev = "abort"})

\* number of calls of appendBuffer and remove made by a queue
MutationCalls(w) ==
  Cardinality({k \in DOMAIN w.trace : w.trace[k].ev \in {"appendBuffer", "remove"}})

\* this step is a call of op on the store
IsCall(op) == lastCall' # lastCall /\ lastCall'.op = op

\* C8: each type has at most one queue created and not disposed of, and
\* get(type) is the element the last createSourceBuffer(type) returned.
C8_OneLiveQueuePerType ==
  /\ \A bufferType \in BufferTypes : Cardinality(LiveQueues(bufferType)) <= 1
  /\ lastCall.op = "createSourceBuffer"
       => get(Store, lastCall.bufferType) = lastCall.element

\* C9 as stated: createSourceBuffer for a custom type of which a queue exists
\* aborts that queue, creates a queue and maps the type to it.
C9_RecreateAbortsStep ==
  LET bufferType == lastCall'.bufferType
  IN (/\ IsCall("createSourceBuffer")
      /\ ~shouldHaveNativeSourceBuffer(bufferType)
      /\ LiveQueues(bufferType) # {})
       => /\ \A i \in LiveQueues(bufferType) :
               AbortCalls(elements'[i].queuedSourceBuffer)
                 > AbortCalls(elements[i].queuedSourceBuffer)
          /\ lastCall'.element \notin DOMAIN elements
          /\ initializedSourceBuffers'[bufferType] = lastCall'.element

C9_RecreateAborts == [][C9_RecreateAbortsStep]_vars

\* C9, amended: createSourceBuffer for a custom type the store maps to an
\* element returns that element and changes nothing: its queue is not aborted
\* and no queue is created. For a custom type the store maps to nothing, a
\* queue is created, no other queue is touched, and the type is mapped to the
\* new element if it is "text", to nothing if it is "image".
C9_CustomReusedStep ==
  LET bufferType == lastCall'.bufferType
      memorizedSourceBuffer == initializedSourceBuffers[bufferType]
  IN (IsCall("createSourceBuffer") /\ ~shouldHaveNativeSourceBuffer(bufferType))
       => IF memorizedSourceBuffer # 0
            THEN /\ lastCall'.element = memorizedSourceBuffer
                 /\ UNCHANGED <<initializedSourceBuffers, elements>>
            ELSE /\ lastCall'.element = Len(elements) + 1
                 /\ Len(elements') = Len(elements) + 1
                 /\ \A i \in DOMAIN elements : elements'[i] = elements[i]
                 /\ elements'[Len(elements) + 1] = NewElement(bufferType, lastCall'.codec)
                 /\ initializedSourceBuffers' =
                      IF bufferType = "text"
                        THEN [initializedSourceBuffers EXCEPT !.text = Len(elements) + 1]
                        ELSE initializedSourceBuffers

C9_CustomReused == [][C9_CustomReusedStep]_vars

\* C9 witness: createSourceBuffer("text") was asked for another codec than
\* the one of the element it returned, whose queue has a task in flight and
\* made no call of abort.
C9_Witness ==
  /\ lastCall.op = "createSourceBuffer"
  /\ lastCall.bufferType = "text"
  /\ lastCall.element # 0
  /\ LET w == elements[lastCall.element].queuedSourceBuffer
     IN /\ w.currentCodec # lastCall.codec
        /\ w.pendingTask # NoTask
        /\ AbortCalls(w) = 0
        /\ get(Store, "text") = lastCall.element

\* C10: disposeSourceBuffer(type) on a type the store maps to an element
\* disposes of its queue (the Subject of every task not settled completes,
\* nothing is left in flight or queued, no appendBuffer or remove is called),
\* calls abort once if the type is custom or the MediaSource is open and not at
\* all otherwise, resets the inventory of the element and removes the mapping;
\* on a type mapped to nothing it changes nothing.
C10_DisposeStep ==
  LET bufferType == lastCall'.bufferType
      memorizedSourceBuffer == initializedSourceBuffers[bufferType]
  IN IsCall("disposeSourceBuffer")
       => IF memorizedSourceBuffer = 0
            THEN UNCHANGED <<initializedSourceBuffers, elements, mediaSourceReadyState>>
            ELSE LET before == elements[memorizedSourceBuffer].queuedSourceBuffer
                     after == elements'[memorizedSourceBuffer].queuedSourceBuffer
                 IN /\ after.destroyed
                    /\ after.pendingTask = NoTask
                    /\ after.queue = <<>>
                    /\ DOMAIN after.tasks = DOMAIN before.tasks
                    /\ \A id \in DOMAIN before.tasks :
                         after.tasks[id].subject =
                           IF before.tasks[id].subject = "open"
                             THEN "completed"
                             ELSE before.tasks[id].subject
                    /\ MutationCalls(after) = MutationCalls(before)
                    /\ AbortCalls(after) =
                         AbortCalls(before)
                           + (IF ~shouldHaveNativeSourceBuffer(bufferType)
                                   \/ mediaSourceReadyState = "open"
                                THEN 1 ELSE 0)
                    /\ elements'[memorizedSourceBuffer].segmentInventory
                         = NewSegmentInventory
                    /\ initializedSourceBuffers' =
                         [initializedSourceBuffers EXCEPT ![bufferType] = 0]
                    /\ \A i \in DOMAIN elements :
                         i # memorizedSourceBuffer => elements'[i] = elements[i]
                    /\ UNCHANGED mediaSourceReadyState

C10_Dispose == [][C10_DisposeStep]_vars

\* C10 as stated: disposeSourceBuffer(type) on a type of which a queue was
\* created and not disposed of disposes of it, resets its inventory and leaves
\* the type mapped to nothing.
C10_DisposesLiveQueueStep ==
  LET bufferType == lastCall'.bufferType
  IN (IsCall("disposeSourceBuffer") /\ LiveQueues(bufferType) # {})
       => /\ \A i \in LiveQueues(bufferType) :
               /\ elements'[i].queuedSourceBuffer.destroyed
               /\ \A id \in DOMAIN elements'[i].queuedSourceBuffer.tasks :
                    elements'[i].queuedSourceBuffer.tasks[id].subject # "open"
               /\ elements'[i].segmentInventory = NewSegmentInventory
          /\ initializedSourceBuffers'[bufferType] = 0

C10_DisposesLiveQueue == [][C10_DisposesLiveQueueStep]_vars

\* C10 witness: disposeSourceBuffer was called on a native type while the
\* MediaSource was closed, with a task in flight and a task queued: both are
\* completed, the second without any call, and abort was not called.
C10_Witness ==
  /\ lastCall.op = "disposeSourceBuffer"
  /\ lastCall.element # 0
  /\ shouldHaveNativeSourceBuffer(lastCall.bufferType)
  /\ get(Store, lastCall.bufferType) = 0
  /\ LET w == elements[lastCall.element].queuedSourceBuffer
     IN /\ w.destroyed
        /\ Len(w.tasks) = 2
        /\ \A id \in DOMAIN w.tasks : w.tasks[id].subject = "completed"
        /\ \E k \in DOMAIN w.trace : w.trace[k].ev = "appendBuffer" /\ w.trace[k].id = 1
        /\ \A k \in DOMAIN w.trace : w.trace[k].id = 2 => w.trace[k].ev = "complete"
        /\ AbortCalls(w) = 0


-----------------------------------------------------------------------------
(* Codec of a native queue: createSourceBuffer and _pushSegmentData *)

\* what is pushed on the queue of an element: segments of either codec
CodecActions ==
  { PushAction("init1", "chunk1", codec, 0, <<Undefined, Undefined>>) :
      codec \in StoreCodecs }

\* a subscription to pushChunk of the queue of an element, on a SourceBuffer
\* of which changeType works for the codec (canChangeType) or not
CodecSubscribe ==
  /\ \E i \in DOMAIN elements, a \in CodecActions, canChangeType \in BOOLEAN :
       /\ ~elements[i].queuedSourceBuffer.destroyed
       /\ StoreTasks(Len(elements)) < MaxStoreTasks
       /\ \E w \in {AddToQueue([elements[i].queuedSourceBuffer EXCEPT
                                  !.sourceBuffer.canChangeType = canChangeType],
                               a, NoReaction)} :
            elements' = [elements EXCEPT ![i].queuedSourceBuffer = w]
  /\ UNCHANGED <<qsbVars, orchVars, toolVars, initializedSourceBuffers, mediaSourceReadyState, lastCall>>

CodecNext ==
  \/ CreateSourceBuffer
  \/ CodecSubscribe
  \/ ElementUpdateEnd

CodecSpec == Init /\ [][CodecNext]_vars

\* positions of the trace of queue `after` that are not in the trace of `before`
NewEntries(before, after) == (Len(before.trace) + 1)..Len(after.trace)

\* the append of the push step of position k of the trace
AppendAfter(q, k) ==
  \E a \in (k + 1)..Len(q.trace) :
    /\ q.trace[a].ev = "appendBuffer"
    /\ q.trace[a].id = q.trace[k].id

\* C11, createSourceBuffer: asking for a native type which has a queue, with a
\* codec which is not the one of this queue, returns the element of this
\* queue, creates none and leaves the codec of the queue as it is
C11_NativeReusedStep ==
  (/\ IsCall("createSourceBuffer")
   /\ shouldHaveNativeSourceBuffer(lastCall'.bufferType)
   /\ get(Store, lastCall'.bufferType) # 0
   /\ elements[get(Store, lastCall'.bufferType)].queuedSourceBuffer.currentCodec
        # lastCall'.codec)
  => /\ lastCall'.element = get(Store, lastCall'.bufferType)
     /\ elements' = elements
     /\ initializedSourceBuffers' = initializedSourceBuffers

\* C11, _pushSegmentData: a push step of which the codec is not the current
\* codec of the queue asks the SourceBuffer to change its type; the current
\* codec becomes the new one when the change succeeded, is left as it was
\* (and a warning is logged) when it failed, and the segment is appended in
\* both cases; nothing else changes the current codec
C11_CodecSwitchStep ==
  \A i \in DOMAIN elements :
    LET before == elements[i].queuedSourceBuffer
        after == elements'[i].queuedSourceBuffer
        new == NewEntries(before, after)
        failures == {k \in new : after.trace[k].ev = "couldNotUpdateCodec"}
        appends == {a \in new : after.trace[a].ev = "appendBuffer"}
    IN /\ \A k \in failures :
            /\ after.trace[k].data # before.currentCodec
            /\ AppendAfter(after, k)
            /\ after.currentCodec = before.currentCodec
            /\ after.sourceBuffer.type = before.sourceBuffer.type
       /\ after.currentCodec # before.currentCodec
            => \E a \in appends :
                 /\ after.tasks[after.trace[a].id].action.codec = after.currentCodec
                 /\ after.sourceBuffer.type = after.currentCodec
       /\ \A a \in appends :
            after.tasks[after.trace[a].id].action.codec # before.currentCodec
            => \/ /\ after.currentCodec = after.tasks[after.trace[a].id].action.codec
                  /\ after.sourceBuffer.type = after.currentCodec
               \/ \E k \in failures : k < a /\ after.trace[k].id = after.trace[a].id

\* C11: a native type asked again with another codec gets its existing queue,
\* and the codec of a queue changes at a push step only, to the codec of the
\* pushed data if the type of the SourceBuffer could be changed, the segment
\* being appended with the previous codec otherwise
C11_CodecSwitch == [][C11_NativeReusedStep /\ C11_CodecSwitchStep]_vars

\* a queue which appended a segment after a failed switch, its codec being
\* still the one it was created with, and a native queue asked again with
\* another codec
C11_Witness ==
  /\ lastCall.op = "createSourceBuffer"
  /\ shouldHaveNativeSourceBuffer(lastCall.bufferType)
  /\ lastCall.element # 0
  /\ lastCall.element <= Len(elements)
  /\ LET q == elements[lastCall.element].queuedSourceBuffer
     IN /\ q.currentCodec # lastCall.codec
        /\ q.bufferType = lastCall.bufferType
        /\ \E k \in DOMAIN q.trace :
             /\ q.trace[k].ev = "couldNotUpdateCodec"
             /\ AppendAfter(q, k)
             /\ q.currentCodec # q.trace[k].data


-----------------------------------------------------------------------------
(* What the BufferOrchestrator sent during a step *)

\* the events of a buffer type among events
EventsOf(events, bufferType) ==
  SelectSeq(events, LAMBDA e : e.bufferType = bufferType)

\* positions of the events of a type
Positions(events, type) == {i \in DOMAIN events : events[i].type = type}

\* the last event, an event of no type when there is none
LastEvent(events) ==
  IF Len(events) = 0 THEN OrchEvent(NULL, "none", 0, 0) ELSE events[Len(events)]

\* the running Period Buffers of a creator which are the ones of a Period
NodesOf(c, period) ==
  {n \in RunningNodes(c) : c.chains[n[1]][n[2]].period = period}

\* the time the Period Buffers coming after the ones of a Period start from
nextWantedTime(period) ==
  LET nextPeriod == manifest.periods[getPeriodAfter(period)]
  IN IF nextPeriod.start >= manifest.periods[period].end
       THEN nextPeriod.start
       ELSE manifest.periods[period].end

\* C12 as stated: a Period Buffer having sent "full-buffer", "buffer-complete"
\* is sent when no Period follows its Period and the Manifest is not dynamic,
\* and in every other case Period Buffers are started from the start of the
\* next Period, no "buffer-complete" being sent
C12_CompleteOnlyIfStaticStep ==
  \A t \in bufferTypes :
    LET sent == EventsOf(emitted', t)
        period == LastEvent(sent).period
    IN LastEvent(sent).type = "full-buffer" =>
         IF getPeriodAfter(period) = 0 /\ ~manifest.isDynamic
           THEN Positions(sent, "buffer-complete") # {}
           ELSE /\ Positions(sent, "buffer-complete") = {}
                /\ getPeriodAfter(period) # 0
                /\ \E i \in Positions(sent, "start-consecutive") :
                     sent[i].value = manifest.periods[getPeriodAfter(period)].start

C12_CompleteOnlyIfStatic == [][C12_CompleteOnlyIfStaticStep]_vars

\* C12, amended: a Period Buffer having sent "full-buffer", nothing else is
\* done while the Period Buffers started after it are there; else
\* "buffer-complete" is sent when no Period follows its Period, the Manifest
\* being dynamic or not, and if one does Period Buffers are started from the
\* start of that Period, or from the end of its own Period if it is later
C12_FullBufferStep ==
  \A t \in bufferTypes :
    LET sent == EventsOf(emitted', t)
        period == LastEvent(sent).period
        before == SubSeq(sent, 1, Len(sent) - 1)
    IN LastEvent(sent).type = "full-buffer" =>
         \E n \in NodesOf(creators[t], period) :
           IF n[2] < Len(creators[t].chains[n[1]])
             THEN /\ before = <<>>
                  /\ creators'[t] = creators[t]
             ELSE IF getPeriodAfter(period) = 0
               THEN /\ before = <<OrchEvent(t, "buffer-complete", 0, 0)>>
                    /\ creators'[t] = creators[t]
               ELSE /\ Len(before) > 0
                    /\ before[1] = OrchEvent(t, "start-consecutive", 0,
                                             nextWantedTime(period))
                    /\ Positions(before, "buffer-complete") = {}
                    /\ Len(creators'[t].chains[n[1]]) = n[2] + 1

C12_FullBuffer == [][C12_FullBufferStep]_vars

\* the last Period Buffer of a dynamic content sent "full-buffer", and
\* "buffer-complete" was sent
C12_Witness ==
  /\ manifest.isDynamic
  /\ \E t \in bufferTypes :
       LET sent == EventsOf(emitted, t)
       IN /\ LastEvent(sent).type = "full-buffer"
          /\ getPeriodAfter(LastEvent(sent).period) = 0
          /\ Positions(sent, "buffer-complete") # {}


\* a sequence, from its last element to its first
Reverse(seq) == [j \in 1..Len(seq) |-> seq[Len(seq) + 1 - j]]

\* the "period-buffer-cleared" of the running Period Buffers among nodes, in
\* the order of nodes
Cleared(bufferType, nodes) ==
  LET running == SelectSeq(nodes, LAMBDA n : n.state = "running")
  IN [j \in 1..Len(running) |->
        OrchEvent(bufferType, "period-buffer-cleared", running[j].period, 0)]

\* the Periods of the events at the given positions, in the order of the events
PeriodsAt(events, positions) ==
  LET chosen == SelectSeq([j \in DOMAIN events |-> <<j, events[j].period>>],
                          LAMBDA x : x[1] \in positions)
  IN [j \in DOMAIN chosen |-> chosen[j][2]]

\* C13 as stated: the Period Buffer of a Period having sent "active-buffer",
\* no Period Buffer of the type runs for a later Period, one
\* "period-buffer-cleared" was sent for each of those which did, from the
\* last Period to the first, the Period Buffer of the Period still runs, and
\* it is the last of its chain, so that its next "full-buffer" starts the
\* next one again
C13_LaterBuffersDestroyedStep ==
  \A t \in bufferTypes :
    LET sent == EventsOf(emitted', t)
        period == LastEvent(sent).period
        cleared == PeriodsAt(sent, Positions(sent, "period-buffer-cleared"))
        later == {n \in RunningNodes(creators[t]) :
                    creators[t].chains[n[1]][n[2]].period > period}
    IN LastEvent(sent).type = "active-buffer" =>
         /\ \A p \in DOMAIN manifest.periods :
              p > period => NodesOf(creators'[t], p) = {}
         /\ Len(cleared) = Cardinality(later)
         /\ \A j \in 1..(Len(cleared) - 1) : cleared[j] >= cleared[j + 1]
         /\ Cardinality(NodesOf(creators'[t], period))
              = Cardinality(NodesOf(creators[t], period))
         /\ \E n \in NodesOf(creators'[t], period) :
              n[2] = Len(creators'[t].chains[n[1]])

C13_LaterBuffersDestroyed == [][C13_LaterBuffersDestroyedStep]_vars

\* C13, for the Period Buffers started after the one which sent
\* "active-buffer" (by its "full-buffer", and by the ones of those): they are
\* ended from the last one to the first, "period-buffer-cleared" being sent
\* for each one which was running, the Period Buffer which sent the event
\* is left running and is the last of its chain again
C13_NextBuffersDestroyedStep ==
  \A t \in bufferTypes :
    LET sent == EventsOf(emitted', t)
        period == LastEvent(sent).period
        before == SubSeq(sent, 1, Len(sent) - 1)
    IN LastEvent(sent).type = "active-buffer" =>
         \E n \in NodesOf(creators[t], period) :
           LET chain == creators[t].chains[n[1]]
               next == SubSeq(chain, n[2] + 1, Len(chain))
           IN /\ before = Cleared(t, Reverse(next))
              /\ creators'[t].chains =
                   [creators[t].chains EXCEPT ![n[1]] = SubSeq(chain, 1, n[2])]
              /\ Len(creators'[t].periodList) = Len(creators[t].periodList)
                   - Len(SelectSeq(next, LAMBDA x : x.state # "cleared"))

C13_NextBuffersDestroyed == [][C13_NextBuffersDestroyedStep]_vars

\* the Period Buffers of the third and of the second Period were ended, in
\* this order, by the "active-buffer" of the Period Buffer of the first one
C13_Witness ==
  \E t \in bufferTypes :
    /\ EventsOf(emitted, t)
         = <<OrchEvent(t, "period-buffer-cleared", 3, 0),
             OrchEvent(t, "period-buffer-cleared", 2, 0),
             OrchEvent(t, "active-buffer", 1, 0)>>
    /\ NodesOf(creators[t], 1) # {}

\* the step is a tick of clock$
IsTick == Len(emitted') > 0 /\ emitted'[1].type = "tick"

\* the Period ends at or before the position
EndsBy(period, position) ==
  /\ manifest.periods[period].end # Undefined
  /\ manifest.periods[period].end <= position

\* C14: a tick having a position at or after the end of a Period, every
\* Period Buffer running for this Period is ended, "period-buffer-cleared"
\* being sent once for each with its type and Period, and the Period Buffers
\* running for Periods which end later are left running, no
\* "period-buffer-cleared" being sent for them; "period-buffer-cleared" is
\* sent for running Period Buffers only
C14_EndOfPeriodStep ==
  \A t \in bufferTypes :
    LET sent == EventsOf(emitted', t)
        position == emitted'[1].value
        clearedFor(p) == {j \in Positions(sent, "period-buffer-cleared") :
                            sent[j].period = p}
        passed == {p \in DOMAIN manifest.periods :
                     EndsBy(p, position) /\ NodesOf(creators[t], p) # {}}
    IN /\ IsTick =>
            /\ \A p \in passed :
                 /\ NodesOf(creators'[t], p) = {}
                 /\ Cardinality(clearedFor(p)) = Cardinality(NodesOf(creators[t], p))
            /\ passed # {} =>
                 \A p \in DOMAIN manifest.periods :
                   ~EndsBy(p, position) =>
                     /\ NodesOf(creators[t], p) \subseteq NodesOf(creators'[t], p)
                     /\ clearedFor(p) = {}
       /\ \A p \in DOMAIN manifest.periods :
            Cardinality({j \in Positions(EventsOf(emitted', t), "period-buffer-cleared") :
                           EventsOf(emitted', t)[j].period = p})
              <= Cardinality(NodesOf(creators[t], p))

OutOfPeriods(periodList, position) ==
  \A j \in DOMAIN periodList :
    LET period == manifest.periods[periodList[j]]
    IN \/ position < period.start
       \/ (period.end # Undefined /\ position >= period.end)

\* the position is before the start of the first considered Period or after
\* the end of the last one, or no Period is considered
OutOfBounds(periodList, position) ==
  \/ Len(periodList) = 0
  \/ position < manifest.periods[periodList[1]].start
  \/ LET last == manifest.periods[periodList[Len(periodList)]]
     IN last.end # Undefined /\ position > last.end

\* restartBuffersWhenOutOfBounds$ let the tick through: the Period Buffers
\* which were running were ended, then Period Buffers were started from the
\* position of the tick
Restarted(t) ==
  LET sent == EventsOf(emitted', t)
      ended == Cardinality(RunningNodes(creators[t]))
  IN /\ Len(sent) >= ended + 2
     /\ sent[1] = OrchEvent(t, "out-of-bounds", 0, emitted'[1].value)
     /\ \A j \in 2..(ended + 1) : sent[j].type = "period-buffer-cleared"
     /\ sent[ended + 2] = OrchEvent(t, "start-consecutive", 0, emitted'[1].value)
     /\ \A n \in RunningNodes(creators'[t]) :
          ~EndsBy(creators'[t].chains[n[1]][n[2]].period, emitted'[1].value)

\* the out-of-bounds check is off from the beginning of a decipherability
\* flush until Period Buffers are started again
CheckDisabledStep ==
  \A t \in bufferTypes :
    LET sent == EventsOf(emitted', t)
    IN /\ (Len(sent) > 0 /\ sent[1].type = "destroy-buffers")
            => ~creators'[t].enableOutOfBoundsCheck
       /\ (~creators[t].enableOutOfBoundsCheck /\ creators'[t].enableOutOfBoundsCheck)
            => Positions(sent, "start-consecutive") # {}
       /\ (IsTick /\ ~creators[t].enableOutOfBoundsCheck)
            => Positions(sent, "out-of-bounds") = {}

\* C15 as stated: on a tick, the Period Buffers of a type are ended and
\* started again from the position iff the check is on, the Manifest has a
\* Period for the position and the position is in no [start, end) of the
\* considered Periods
C15_RestartOutOfPeriodsStep ==
  IsTick =>
    \A t \in bufferTypes :
      Restarted(t) <=>
        /\ creators[t].enableOutOfBoundsCheck
        /\ ManifestGetPeriodForTime(emitted'[1].value) # 0
        /\ OutOfPeriods(creators[t].periodList, emitted'[1].value)

C15_RestartOutOfPeriods == [][C15_RestartOutOfPeriodsStep]_vars

\* C15, amended: on a tick, the Period Buffers of a type are ended and
\* started again from the position iff the check is on, the Manifest has a
\* Period for the position and the position is before the start of the
\* first considered Period or after the end of the last one, the end itself
\* being in; the check is off from the beginning of a decipherability flush
\* until Period Buffers are started again, and nothing is restarted then
C15_RestartOutOfBoundsStep ==
  /\ CheckDisabledStep
  /\ IsTick =>
       \A t \in bufferTypes :
         /\ Restarted(t) <=>
              /\ creators[t].enableOutOfBoundsCheck
              /\ ManifestGetPeriodForTime(emitted'[1].value) # 0
              /\ OutOfBounds(creators[t].periodList, emitted'[1].value)
         /\ Restarted(t) <=> Positions(EventsOf(emitted', t), "out-of-bounds") # {}

C15_RestartOutOfBounds == [][C15_RestartOutOfBoundsStep]_vars

\* a tick at the end of the only considered Period, for which the Manifest
\* has a Period: its Period Buffer was ended and nothing was started again
C15_Witness ==
  \E t \in bufferTypes :
    /\ Len(emitted) = 2
    /\ emitted[1].type = "tick"
    /\ emitted[2].type = "period-buffer-cleared"
    /\ emitted[2].bufferType = t
    /\ manifest.periods[emitted[2].period].end = emitted[1].value
    /\ ManifestGetPeriodForTime(emitted[1].value) # 0
    /\ creators[t].enableOutOfBoundsCheck
    /\ creators[t].periodList = <<>>

\* a decipherability flush of the type is going on
Flushing(c) == \E f \in DOMAIN c.flushes : c.flushes[f].state # "done"

\* C16 as stated, what it forbids: Period Buffers of the type there between
\* the "decipherabilityUpdate" and the end of the removals asked for it
C16_NoBufferWhileFlushing ==
  \A t \in bufferTypes :
    Flushing(creators[t]) => \A k \in DOMAIN creators[t].chains :
                               creators[t].chains[k] = <<>>

\* a flush asks the queue for one removal at a time, and waits for a tick
\* once it has no removal left only
OneRemovalAtATime(c) ==
  \A f \in DOMAIN c.flushes :
    /\ Cardinality({j \in DOMAIN c.removals : c.removals[j] = f}) <= 1
    /\ c.flushes[f].state = "waiting"
         => c.flushes[f].left = 0 /\ \A j \in DOMAIN c.removals : c.removals[j] # f
    /\ c.flushes[f].state = "removing"
         => \E j \in DOMAIN c.removals : c.removals[j] = f

\* C16, one "decipherabilityUpdate" at a time: the Period Buffers of the
\* type are ended first, then the removals are asked to the queue, one when
\* the one before is done, and once the last one is done the next tick has
\* "needs-decipherability-flush" sent, then Period Buffers started from its
\* position
C16_FlushStep ==
  \A t \in bufferTypes :
    LET sent == EventsOf(emitted', t)
        ended == Cardinality(RunningNodes(creators[t]))
        waiting == {f \in DOMAIN creators[t].flushes :
                      creators[t].flushes[f].state = "waiting"}
    IN /\ OneRemovalAtATime(creators'[t])
       /\ (Len(sent) > 0 /\ sent[1].type = "destroy-buffers") =>
            /\ \A j \in 2..(ended + 1) : sent[j].type = "period-buffer-cleared"
            /\ \A j \in (ended + 2)..Len(sent) : sent[j].type = "remove-buffer"
            /\ Len(sent) <= ended + 2
            /\ creators'[t].chains = <<>>
            /\ creators'[t].periodList = <<>>
            /\ Positions(sent, "needs-decipherability-flush") = {}
            /\ Positions(sent, "start-consecutive") = {}
       /\ \A j \in Positions(sent, "needs-decipherability-flush") :
            /\ IsTick
            /\ sent[j].value = emitted'[1].value
            /\ j < Len(sent)
            /\ sent[j + 1] = OrchEvent(t, "start-consecutive", 0, emitted'[1].value)
       /\ (IsTick /\ ~creators'[t].errored) =>
            /\ Cardinality(Positions(sent, "needs-decipherability-flush"))
                 = Cardinality(waiting)
            /\ \A f \in waiting : creators'[t].flushes[f].state = "done"
       /\ ~IsTick => Positions(sent, "needs-decipherability-flush") = {}

C16_Flush == [][C16_FlushStep]_vars

\* the tick which follows the end of the removals of the only flush:
\* "needs-decipherability-flush" was sent, and a Period Buffer was started
C16_Witness ==
  \E t \in bufferTypes :
    LET sent == EventsOf(emitted, t)
    IN /\ Len(emitted) > 0
       /\ emitted[1].type = "tick"
       /\ Len(sent) = 3
       /\ sent[1] = OrchEvent(t, "needs-decipherability-flush", 0, emitted[1].value)
       /\ sent[2] = OrchEvent(t, "start-consecutive", 0, emitted[1].value)
       /\ sent[3].type = "period-buffer-created"
       /\ creators[t].flushes = <<[left |-> 0, state |-> "done"]>>
       /\ creators[t].removals = <<>>


\* C17: "end-of-stream" is sent in the steps after which every buffer type
\* is complete and before which one was not, "resume-stream" in the steps
\* before which every type was complete and after which one is not, a type
\* being complete from its "buffer-complete" to its next "active-buffer";
\* so "end-of-stream" is never sent while a type is not complete
C17_EndOfStreamStep ==
  /\ Positions(emitted', "end-of-stream") # {}
       <=> (~AllComplete(complete) /\ AllComplete(complete'))
  /\ Positions(emitted', "resume-stream") # {}
       <=> (AllComplete(complete) /\ ~AllComplete(complete'))
  /\ Cardinality(Positions(emitted', "end-of-stream")
                   \cup Positions(emitted', "resume-stream")) <= 1
  /\ \A t \in bufferTypes :
       LET sent == EventsOf(emitted', t)
       IN /\ Positions(sent, "buffer-complete") # {} => complete'[t]
          /\ Positions(sent, "active-buffer") # {} => ~complete'[t]
          /\ (/\ Positions(sent, "buffer-complete") = {}
              /\ Positions(sent, "active-buffer") = {}) => complete'[t] = complete[t]

C17_EndOfStream == [][C17_EndOfStreamStep]_vars

\* a type left the complete state after "end-of-stream": "resume-stream" was
\* sent, the other type being still complete
C17_Witness ==
  /\ Positions(emitted, "resume-stream") # {}
  /\ Positions(emitted, "active-buffer") # {}
  /\ \E t \in bufferTypes : complete[t]
  /\ \E t \in bufferTypes : ~complete[t]

\* the warnings sent during the step
Warnings == PeriodsAt([j \in DOMAIN emitted' |-> [period |-> emitted'[j].code]],
                      Positions(emitted', "warning"))

\* C18: on a tick, one MEDIA_TIME_BEFORE_MANIFEST warning is sent iff the
\* position is before the minimum position of the Manifest, one
\* MEDIA_TIME_AFTER_MANIFEST warning iff it is after its maximum position and
\* no warning otherwise; no other step sends a warning, and after a warning
\* no stream has ended on an error and every Period Buffer which was running
\* for a Period not ended at the position is running
C18_OutOfManifestStep ==
  /\ ~IsTick => Warnings = <<>>
  /\ IsTick =>
       LET position == emitted'[1].value
       IN /\ Warnings =
               IF position < manifest.minimumPosition
                 THEN <<"MEDIA_TIME_BEFORE_MANIFEST">>
                 ELSE IF position > manifest.maximumPosition
                   THEN <<"MEDIA_TIME_AFTER_MANIFEST">>
                   ELSE <<>>
          /\ Warnings # <<>> =>
               /\ \A t \in bufferTypes : ~creators'[t].errored
               /\ \A t \in bufferTypes :
                    \A n \in RunningNodes(creators[t]) :
                      ~EndsBy(creators[t].chains[n[1]][n[2]].period, position)
                        => \E m \in RunningNodes(creators'[t]) :
                             creators'[t].chains[m[1]][m[2]].period
                               = creators[t].chains[n[1]][n[2]].period

-----------------------------------------------------------------------------
(* pushMediaSegment, on the queue and the inventory of an element *)

\* APPEND_WINDOW_SECURITIES of the config, in the time unit of the model
APPEND_WINDOW_SECURITIES == [START |-> 1, END |-> 1]

\* the segment pushed: `segment`
MediaSegment == [time |-> 2, duration |-> 4, timescale |-> 2]

\* parsedSegment.chunkInfos when it is null
NoChunkInfos == [time |-> Undefined, duration |-> Undefined, timescale |-> 1]

\* the values of parsedSegment.chunkInfos
ChunkInfos ==
  { NoChunkInfos,
    [time |-> 4, duration |-> 2, timescale |-> 2],
    [time |-> 4, duration |-> Undefined, timescale |-> 2] }

\* the values of parsedSegment
ParsedSegments ==
  { [chunkData |-> c, chunkInfos |-> ci, chunkOffset |-> 0, appendWindow |-> aw] :
      c \in Chunks \cup {NULL}, ci \in ChunkInfos,
      aw \in {<<Undefined, Undefined>>, <<2, 3>>, <<5, 6>>} }

\* SegmentInventory.insertChunk: the chunk is inserted, not synchronised yet
\* (no buffered start nor end), and the last writer wins on the regions of
\* the other entries it overlaps
SegmentInventoryInsertChunk(inventory, data) ==
  LET entry == [chunk |-> data.chunk, start |-> data.start, end |-> data.end,
                bufferedStart |-> Undefined, bufferedEnd |-> Undefined]
      before == { [e EXCEPT !.end = MathMin(@, data.start)] :
                    e \in {x \in inventory : x.start < data.start} }
      after == { [e EXCEPT !.start = MathMax(@, data.end)] :
                   e \in {x \in inventory : x.end > data.end} }
  IN before \cup after \cup {entry}

\* the insertChunk calls of the trace, from position k on, made on inventory
RECURSIVE InsertChunks(_, _, _)
InsertChunks(inventory, calls, k) ==
  IF k > Len(calls)
    THEN inventory
    ELSE InsertChunks(IF calls[k].ev = "insertChunk"
                        THEN SegmentInventoryInsertChunk(inventory, calls[k].data)
                        ELSE inventory,
                      calls, k + 1)

\* the trace of queue w from position k on, with what the subscribers of
\* pushMediaSegment did when the Subject of their push emitted: a subscriber
\* is called if it was still there (queue `before`: the queue at the start of
\* the step)
RECURSIVE Delivered(_, _, _)
Delivered(before, w, k) ==
  IF k > Len(w.trace)
    THEN <<>>
    ELSE LET e == w.trace[k]
             called == /\ e.ev = "next"
                       /\ w.tasks[e.id].reaction.on = "map"
                       /\ (e.id \in DOMAIN before.tasks => before.tasks[e.id].subscribed)
         IN <<e>>
            \o (IF called
                  THEN OnAppended(e.id, w.tasks[e.id].reaction.action, e.updating)
                  ELSE <<>>)
            \o Delivered(before, w, k + 1)

\* the element once its queue became w: the callbacks of pushMediaSegment
\* called meanwhile inserted their chunk in its inventory
Received(element, w) ==
  Val({
    [queuedSourceBuffer |-> [Calm(w) EXCEPT !.trace = t],
     segmentInventory |-> InsertChunks(element.segmentInventory, t,
                                       Len(element.queuedSourceBuffer.trace) + 1)]
    : t \in {SubSeq(w.trace, 1, Len(element.queuedSourceBuffer.trace))
               \o Delivered(element.queuedSourceBuffer, w,
                            Len(element.queuedSourceBuffer.trace) + 1)} })

\* the data and the inventoryInfos pushMediaSegment builds
SafeAppendWindow(appendWindow) ==
  << IF appendWindow[1] # Undefined
       THEN MathMax(0, appendWindow[1] - APPEND_WINDOW_SECURITIES.START)
       ELSE Undefined,
     IF appendWindow[2] # Undefined
       THEN appendWindow[2] + APPEND_WINDOW_SECURITIES.END
       ELSE Undefined >>

InventoryInfos(parsedSegment, segment) ==
  LET chunkInfos == parsedSegment.chunkInfos
  IN [segment |-> segment,
      chunk |-> parsedSegment.chunkData,
      estimatedStart |-> IF chunkInfos # NoChunkInfos
                           THEN InSeconds(chunkInfos.time, chunkInfos.timescale)
                           ELSE Undefined,
      estimatedDuration |-> IF chunkInfos # NoChunkInfos /\ chunkInfos.duration # Undefined
                              THEN InSeconds(chunkInfos.duration, chunkInfos.timescale)
                              ELSE Undefined,
      safeAppendWindow |-> SafeAppendWindow(parsedSegment.appendWindow)]

\* a pushMediaSegment which inserts the chunk in the inventory as soon as it
\* is subscribed to
pushMediaSegmentInsertsAtOnce(element, initSegmentData, parsedSegment, segment, codec, throws) ==
  Val({
    LET q == [el.queuedSourceBuffer EXCEPT !.sourceBuffer.throwing = throws]
        id == Len(q.tasks) + 1
        data == PushAction(initSegmentData, parsedSegment.chunkData, codec,
                           parsedSegment.chunkOffset,
                           SafeAppendWindow(parsedSegment.appendWindow))
        infos == InventoryInfos(parsedSegment, segment)
        called == Log(q, Entry("pushMediaSegment", id, parsedSegment.chunkData, FALSE,
                               q.sourceBuffer.updating))
        inserted == Log(called, Entry("insertChunk", id, InventoryData(infos), FALSE,
                                      q.sourceBuffer.updating))
    IN IF parsedSegment.chunkData = NULL
         THEN [el EXCEPT !.queuedSourceBuffer =
                 Log(@, Entry("pushMediaSegment", 0, NULL, FALSE, @.sourceBuffer.updating))]
         ELSE Received(el, AddToQueue(inserted, data, MapReaction(infos)))
    : el \in {element} })

\* pushMediaSegment, once subscribed to: nothing when there is no chunk data,
\* else the data is given to the queue (appendSegmentToSourceBuffer, which
\* subscribes to pushChunk) and the callback waits for it to be pushed
pushMediaSegment(element, initSegmentData, parsedSegment, segment, codec, throws) ==
  Val({
    LET q == [el.queuedSourceBuffer EXCEPT !.sourceBuffer.throwing = throws]
        id == Len(q.tasks) + 1
        data == PushAction(initSegmentData, parsedSegment.chunkData, codec,
                           parsedSegment.chunkOffset,
                           SafeAppendWindow(parsedSegment.appendWindow))
        infos == InventoryInfos(parsedSegment, segment)
        called == Log(q, Entry("pushMediaSegment", id, parsedSegment.chunkData, FALSE,
                               q.sourceBuffer.updating))
    IN IF parsedSegment.chunkData = NULL
         THEN [el EXCEPT !.queuedSourceBuffer =
                 Log(@, Entry("pushMediaSegment", 0, NULL, FALSE, @.sourceBuffer.updating))]
         ELSE Received(el, AddToQueue(called, data, MapReaction(infos)))
    : el \in {element} })

\* positions of the trace of queue q where pushMediaSegment was subscribed to
PushesOf(q) == {k \in DOMAIN q.trace : q.trace[k].ev = "pushMediaSegment"}

\* number of subscriptions to pushMediaSegment made on the first n elements
RECURSIVE StorePushes(_)
StorePushes(n) ==
  IF n = 0 THEN 0
  ELSE Cardinality(PushesOf(elements[n].queuedSourceBuffer)) + StorePushes(n - 1)

PushVarsUnchanged ==
  UNCHANGED <<qsbVars, orchVars, toolVars, initializedSourceBuffers, mediaSourceReadyState, lastCall>>

\* a subscription to pushMediaSegment, on the queue and the inventory of an
\* element
PushMediaSegment ==
  /\ \E i \in DOMAIN elements, initSegmentData \in {NULL, "init1"},
        parsedSegment \in ParsedSegments, throws \in BOOLEAN :
       /\ ~elements[i].queuedSourceBuffer.destroyed
       /\ StorePushes(Len(elements)) < MaxPushes
       /\ \E el \in {pushMediaSegment(elements[i], initSegmentData, parsedSegment,
                                      MediaSegment, "codecA", throws)} :
            elements' = [elements EXCEPT ![i] = el]
  /\ PushVarsUnchanged

\* the SourceBuffer of an element ends its update and sends "updateend"
PushUpdateEnd ==
  /\ \E i \in DOMAIN elements, throws \in BOOLEAN :
       /\ elements[i].queuedSourceBuffer.sourceBuffer.updating
       /\ \E w \in {OnUpdateEnd([elements[i].queuedSourceBuffer
                                   EXCEPT !.sourceBuffer.throwing = throws])} :
            elements' = [elements EXCEPT ![i] = Received(@, w)]
  /\ PushVarsUnchanged

\* the SourceBuffer of an element ends its update on an error
PushErrorEvent ==
  /\ \E i \in DOMAIN elements, updateEndLost \in BOOLEAN :
       /\ elements[i].queuedSourceBuffer.sourceBuffer.updating
       /\ \E w \in {OnErrorEvent(elements[i].queuedSourceBuffer, updateEndLost)} :
            elements' = [elements EXCEPT ![i] = Received(@, w)]
  /\ PushVarsUnchanged

\* the subscriber of a pushMediaSegment unsubscribes
PushUnsubscribe ==
  /\ \E i \in DOMAIN elements :
       \E id \in DOMAIN elements[i].queuedSourceBuffer.tasks :
         /\ elements[i].queuedSourceBuffer.tasks[id].subscribed
         /\ \E w \in {Teardown(elements[i].queuedSourceBuffer, id)} :
              elements' = [elements EXCEPT ![i] = Received(@, w)]
  /\ PushVarsUnchanged

\* a store of which createSourceBuffer("video", codec) gave the first element
PushInit ==
  /\ SetWorldInit
  /\ ToolsIdle
  /\ OrchIdle
  /\ \E codec \in StoreCodecs :
       /\ elements = <<NewElement("video", codec)>>
       /\ lastCall = [op |-> "createSourceBuffer", bufferType |-> "video",
                      codec |-> codec, element |-> 1]
  /\ initializedSourceBuffers = [t \in BufferTypes |-> IF t = "video" THEN 1 ELSE 0]
  /\ mediaSourceReadyState = "open"

PushNext ==
  \/ PushMediaSegment
  \/ PushUpdateEnd
  \/ PushErrorEvent
  \/ PushUnsubscribe

PushSpec == PushInit /\ [][PushNext]_vars

\* positions of the trace of queue q where ev happened for subscription id
EntriesOf(q, ev, id) ==
  {k \in DOMAIN q.trace : q.trace[k].ev = ev /\ q.trace[k].id = id}

\* the queue reported the push of subscription id as successful just before
\* position k of its trace: its Subject emitted, the chunk having been
\* appended and the SourceBuffer having ended its update
ReportedAt(q, id, k) ==
  /\ k > 1
  /\ q.trace[k - 1].ev = "next"
  /\ q.trace[k - 1].id = id
  /\ ~q.trace[k - 1].updating
  /\ \E a \in 1..(k - 1) :
       /\ q.trace[a].ev = "appendBuffer"
       /\ q.trace[a].id = id
       /\ ~q.trace[a].isInit
       /\ q.trace[a].data = q.tasks[id].action.chunk

\* C19, one step: a chunk is inserted in the inventory only from the callback
\* called when the queue reports the push, to a subscriber still there, of a
\* push with chunk data; the inventory changes and added-segment is sent only
\* with such an insertion; a subscription without chunk data subscribes to
\* nothing on the queue
C19_InsertAfterSuccessStep ==
  \A i \in DOMAIN elements :
    LET before == elements[i].queuedSourceBuffer
        after == elements'[i].queuedSourceBuffer
        new == NewEntries(before, after)
        inserts == {k \in new : after.trace[k].ev = "insertChunk"}
    IN /\ \A k \in inserts :
            LET id == after.trace[k].id
            IN /\ ReportedAt(after, id, k)
               /\ k - 1 \in new
               /\ id \in DOMAIN before.tasks
               /\ before.tasks[id].subscribed
               /\ after.tasks[id].action.chunk # NULL
               /\ EntriesOf(after, "error", id) = {}
               /\ EntriesOf(after, "insertChunk", id) = {k}
       /\ elements'[i].segmentInventory # elements[i].segmentInventory => inserts # {}
       /\ \A k \in new :
            after.trace[k].ev = "addedSegment"
            => \E j \in inserts : j < k /\ after.trace[j].id = after.trace[k].id
       /\ \A k \in new :
            (after.trace[k].ev = "pushMediaSegment" /\ after.trace[k].data = NULL)
            => /\ after.tasks = before.tasks
               /\ inserts = {}
       /\ \A id \in DOMAIN before.tasks :
            (before.tasks[id].subject = "errored" \/ ~before.tasks[id].subscribed)
            => \A k \in new : after.trace[k].id # id
                                 \/ after.trace[k].ev \notin {"insertChunk", "addedSegment"}

\* C19: in pushMediaSegment, the chunk is inserted in the inventory strictly
\* after the queue reported the push as successful; when the push fails, is
\* cancelled before it completes or when there is no chunk data, nothing is
\* inserted and no added-segment is sent
C19_InsertAfterSuccess == [][C19_InsertAfterSuccessStep]_vars

\* a push failed and inserted nothing, another one succeeded and its chunk is
\* in the inventory
C19_Witness ==
  \E i \in DOMAIN elements :
    LET q == elements[i].queuedSourceBuffer
    IN /\ \E id \in DOMAIN q.tasks :
            /\ q.tasks[id].subject = "errored"
            /\ q.tasks[id].reaction.on = "map"
            /\ EntriesOf(q, "insertChunk", id) = {}
       /\ \E id \in DOMAIN q.tasks :
            /\ EntriesOf(q, "insertChunk", id) # {}
            /\ \E e \in elements[i].segmentInventory : e.chunk = q.tasks[id].action.chunk

\* the entry of the chunk inserted at position k of the trace of the queue of
\* element i is in its inventory, synchronised with the buffered ranges
Synchronised(element, k) ==
  \E e \in element.segmentInventory :
    /\ e.chunk = element.queuedSourceBuffer.trace[k].data.chunk
    /\ e.start = element.queuedSourceBuffer.trace[k].data.start
    /\ e.bufferedStart # Undefined
    /\ e.bufferedEnd # Undefined

\* the claim as stated, one step: when added-segment is sent, the chunk
\* inserted has been synchronised with the buffered ranges
C20_SynchronisedStep ==
  \A i \in DOMAIN elements :
    LET before == elements[i].queuedSourceBuffer
        after == elements'[i].queuedSourceBuffer
    IN \A k \in NewEntries(before, after) :
         after.trace[k].ev = "addedSegment"
         => \E j \in NewEntries(before, after) :
              /\ j < k
              /\ after.trace[j].ev = "insertChunk"
              /\ after.trace[j].id = after.trace[k].id
              /\ Synchronised(elements'[i], j)

\* C20 as stated: on each successful media push the inventory is updated with
\* the chunk, then synchronised against the buffered ranges, and only then is
\* added-segment sent
C20_Synchronised == [][C20_SynchronisedStep]_vars

\* C20, one step: the callback of a successful push inserts the chunk in the
\* inventory, then reads the buffered ranges of the queue, then sends
\* added-segment, in that order and with nothing in between; the entry of the
\* chunk is in the inventory, not synchronised
C20_InsertReadEmitStep ==
  \A i \in DOMAIN elements :
    LET before == elements[i].queuedSourceBuffer
        after == elements'[i].queuedSourceBuffer
        new == NewEntries(before, after)
    IN /\ \A k \in new :
            after.trace[k].ev = "addedSegment"
            => /\ k - 2 \in new
               /\ after.trace[k - 1].ev = "getBufferedRanges"
               /\ after.trace[k - 1].id = after.trace[k].id
               /\ after.trace[k - 2].ev = "insertChunk"
               /\ after.trace[k - 2].id = after.trace[k].id
               /\ after.trace[k - 2].data.chunk = after.trace[k].data
               /\ ~Synchronised(elements'[i], k - 2)
       /\ \A k \in new :
            after.trace[k].ev = "insertChunk"
            => /\ k + 2 <= Len(after.trace)
               /\ after.trace[k + 2].ev = "addedSegment"
               /\ after.trace[k + 2].id = after.trace[k].id
       /\ \A k \in new :
            (after.trace[k].ev = "next" /\ after.tasks[after.trace[k].id].reaction.on = "map"
             /\ after.trace[k].id \in DOMAIN before.tasks
             /\ before.tasks[after.trace[k].id].subscribed)
            => /\ k + 1 <= Len(after.trace)
               /\ after.trace[k + 1].ev = "insertChunk"
               /\ after.trace[k + 1].id = after.trace[k].id
               /\ \E e \in elements'[i].segmentInventory :
                    /\ e.chunk = after.trace[k + 1].data.chunk
                    /\ e.start = after.trace[k + 1].data.start
                    /\ e.end = after.trace[k + 1].data.end

\* C20: on each successful media push the inventory is updated with the
\* chunk, then the buffered ranges of the queue are read, and only then is
\* added-segment sent; the inventory is not synchronised in between
C20_InsertReadEmit == [][C20_InsertReadEmitStep]_vars

\* two pushes succeeded on the same queue: both chunks were inserted and
\* added-segment was sent for both
C20_Witness ==
  \E i \in DOMAIN elements :
    LET q == elements[i].queuedSourceBuffer
    IN /\ \E id \in DOMAIN q.tasks : EntriesOf(q, "addedSegment", id) # {}
       /\ Cardinality({k \in DOMAIN q.trace : q.trace[k].ev = "addedSegment"}) = 2
       /\ elements[i].segmentInventory # {}

-----------------------------------------------------------------------------
(* The init segment reference and the append window of a queue *)

\* the append of an init segment is in flight: the last call made on the
\* SourceBuffer appends an init segment and the SourceBuffer is updating
InitInFlight ==
  /\ sourceBuffer.updating
  /\ Calls # {}
  /\ Max(Calls) \in InitCalls

\* the last append of an init segment failed, or an append or removal made
\* after it did
InitFailed ==
  /\ InitCalls # {}
  /\ \E e \in Errors : e > Max(InitCalls)

\* the claim as stated: while the append of an init segment is in flight, or
\* once it has failed, lastInitSegment does not refer to that init segment
C29_InitSetAfterSuccess ==
  /\ InitInFlight => lastInitSegment # trace[Max(InitCalls)].data
  /\ InitFailed => lastInitSegment # trace[Max(InitCalls)].data

\* C29: lastInitSegment is set to an init segment when the append of that
\* init segment is started, and is reset to null when the SourceBuffer
\* reports an error: it refers to the last init segment of which the append
\* was started if no error was reported since, to none otherwise
C29_InitSetWhenAppendStarts ==
  lastInitSegment =
    IF InitCalls = {} \/ InitFailed THEN NULL ELSE trace[Max(InitCalls)].data

\* after an error, the append of an init segment is in flight and
\* lastInitSegment already refers to it
C29_Witness ==
  /\ InitInFlight
  /\ \E e \in Errors : e < Max(InitCalls)
  /\ lastInitSegment = trace[Max(InitCalls)].data
  /\ lastInitSegment # NULL

\* the append windows of the pushes: appendWindow[0] < appendWindow[1] when
\* both are defined, and appendWindow[1] > 0
Windows ==
  { <<Undefined, Undefined>>, <<1, 3>>, <<Undefined, 2>>, <<4, Undefined>>,
    <<5, 6>>, <<0, 1>> }

WindowActions ==
  { PushAction(NULL, "chunk1", "codecA", 0, aw) : aw \in Windows }

\* the windows of the SourceBuffer after each assignment of a
\* _pushSegmentData which assigns appendWindowStart without looking at
\* appendWindowEnd first
AppendWindowAssignmentsNoWidening(start, end, appendWindow) ==
  LET s1 == IF appendWindow[1] = Undefined
              THEN IF start > 0 THEN << <<0, end>> >> ELSE <<>>
              ELSE IF appendWindow[1] # start
                     THEN << <<appendWindow[1], end>> >>
                     ELSE <<>>
      cur == IF Len(s1) = 0 THEN <<start, end>> ELSE s1[Len(s1)]
      s2 == IF appendWindow[2] = Undefined
              THEN IF cur[2] # Infinity THEN << <<cur[1], Infinity>> >> ELSE <<>>
              ELSE IF appendWindow[2] # cur[2]
                     THEN << <<cur[1], appendWindow[2]>> >>
                     ELSE <<>>
  IN s1 \o s2

\* _pushSegmentData, the append window: <<appendWindowStart, appendWindowEnd>>
\* of the SourceBuffer after each of the assignments made, in their order
AppendWindowAssignments(start, end, appendWindow) ==
  LET s1 == IF appendWindow[1] = Undefined
              THEN IF start > 0 THEN << <<0, end>> >> ELSE <<>>
              ELSE IF appendWindow[1] # start
                     THEN (IF appendWindow[1] >= end
                             THEN << <<start, appendWindow[1] + 1>> >>
                             ELSE <<>>)
                          \o << <<appendWindow[1],
                                  IF appendWindow[1] >= end
                                    THEN appendWindow[1] + 1 ELSE end>> >>
                     ELSE <<>>
      cur == IF Len(s1) = 0 THEN <<start, end>> ELSE s1[Len(s1)]
      s2 == IF appendWindow[2] = Undefined
              THEN IF cur[2] # Infinity THEN << <<cur[1], Infinity>> >> ELSE <<>>
              ELSE IF appendWindow[2] # cur[2]
                     THEN << <<cur[1], appendWindow[2]>> >>
                     ELSE <<>>
  IN s1 \o s2

\* a subscription to pushChunk with one of the append windows
WindowPush ==
  /\ Len(tasks) < MaxTasks
  /\ \E a \in WindowActions :
       \E w \in {AddToQueue(World(FALSE), a, NoReaction)} : SetWorld(w)
  /\ UNCHANGED <<storeVars, orchVars, toolVars>>

WindowNext ==
  \/ WindowPush
  \/ UpdateEnd

WindowSpec == Init /\ [][WindowNext]_vars

\* C30, one step: a push step reconciles the append window of the
\* SourceBuffer by assignments after each of which appendWindowStart <
\* appendWindowEnd, and leaves it at the window of the step, 0 standing for
\* an undefined start and +Infinity for an undefined end
C30_AppendWindowStep ==
  LET new == {k \in DOMAIN trace' : k > Len(trace) /\ trace'[k].ev = "appendBuffer"}
  IN /\ Cardinality(new) <= 1
     /\ new = {} => /\ sourceBuffer'.appendWindowStart = sourceBuffer.appendWindowStart
                    /\ sourceBuffer'.appendWindowEnd = sourceBuffer.appendWindowEnd
     /\ \A k \in new :
          LET appendWindow == tasks'[trace'[k].id].action.appendWindow
              assigned == AppendWindowAssignments(sourceBuffer.appendWindowStart,
                                                  sourceBuffer.appendWindowEnd,
                                                  appendWindow)
              last == IF Len(assigned) = 0
                        THEN <<sourceBuffer.appendWindowStart, sourceBuffer.appendWindowEnd>>
                        ELSE assigned[Len(assigned)]
          IN /\ \A n \in DOMAIN assigned : assigned[n][1] < assigned[n][2]
             /\ last = <<sourceBuffer'.appendWindowStart, sourceBuffer'.appendWindowEnd>>
             /\ sourceBuffer'.appendWindowStart =
                  IF appendWindow[1] = Undefined THEN 0 ELSE appendWindow[1]
             /\ sourceBuffer'.appendWindowEnd =
                  IF appendWindow[2] = Undefined THEN Infinity ELSE appendWindow[2]

\* C30: while the queue reconciles the append window for a push step,
\* appendWindowStart < appendWindowEnd holds after every assignment, whatever
\* the previous window, the end being first widened to a + 1 when the new
\* start a is not below it; at the end appendWindowStart is a (0 if a is
\* undefined) and appendWindowEnd is b (+Infinity if b is undefined)
C30_AppendWindow == [][C30_AppendWindowStep]_vars

\* a push step whose start is not below the end of the window the previous
\* push step left: the end was widened first
C30_Witness ==
  \E j, k \in Calls :
    /\ j < k
    /\ sourceBuffer.appendWindowStart = 5
    /\ sourceBuffer.appendWindowEnd = 6
    /\ tasks[trace[k].id].action.appendWindow = <<5, 6>>
    /\ tasks[trace[j].id].action.appendWindow = <<1, 3>>
    /\ \A m \in Calls : m <= j \/ m >= k

-----------------------------------------------------------------------------
(* PersistentSessionsStore.delete *)

\* a PersistentSessionsStore on a storage which holds nothing, or one entry
\* saved by a previous version
PersistentInit ==
  /\ SetWorldInit
  /\ StoreIdle
  /\ OrchIdle
  /\ \E loaded \in {<<>>, <<LegacyEntry("s1", 11, "cenc")>>} :
       persistentSessions = NewPersistentSessionsStore(loaded)
  /\ loadedSessions = NewLoadedSessionsStore
  /\ timelineIndex = NewTimelineState(CHOOSE ti \in TimelineIndexes : TRUE)
  /\ updateScheduler = NewScheduler("url", NULL, 0)
  /\ thumbnailLoader = NewVideoThumbnailLoader

PersistentNext ==
  \/ PersistentAddCall
  \/ PersistentDeleteCall
  \/ PersistentDisposeCall

PersistentSpec == PersistentInit /\ [][PersistentNext]_vars

\* positions of the entries of the store matching the initialization data
Matching(store, initData, initDataType) ==
  { i \in DOMAIN store.entries :
      /\ store.entries[i].initDataType = initDataType
      /\ IF store.entries[i].version = 1
           THEN store.entries[i].initData = initData
           ELSE store.entries[i].initData = hashBuffer(initData) }

\* C23, one step: delete(initData, initDataType) removes the entry matching
\* the initialization data and saves the entries when there is one; when
\* there is none it warns that it was not found and changes neither the
\* entries nor the storage
C23_DeleteStep ==
  (persistentSessions'.lastCall.op = "delete" /\ persistentSessions' # persistentSessions)
  => LET before == persistentSessions
         after == persistentSessions'
         found == Matching(before, after.lastCall.initData, after.lastCall.initDataType)
     IN IF found # {}
          THEN /\ \E i \in found : after.entries = Splice(before.entries, i)
               /\ after.lastCall.saved
               /\ after.lastCall.warning # "not found"
          ELSE /\ after.entries = before.entries
               /\ after.storage = before.storage
               /\ ~after.lastCall.saved
               /\ after.lastCall.warning = "not found"

\* C23: PersistentSessionsStore.delete removes exactly the entry matching the
\* initialization data and persists the result when such an entry exists;
\* when none matches it only warns and leaves entries and storage unchanged
C23_Delete == [][C23_DeleteStep]_vars

\* delete was called for initialization data of which the store holds an
\* entry, another entry being held too
C23_Witness ==
  /\ persistentSessions.lastCall.op = "delete"
  /\ Len(persistentSessions.entries) = 2
  /\ Matching(persistentSessions, persistentSessions.lastCall.initData,
              persistentSessions.lastCall.initDataType) # {}

-----------------------------------------------------------------------------
(* LoadedSessionsStore.closeAllSessions *)

LoadedInit ==
  /\ SetWorldInit
  /\ StoreIdle
  /\ OrchIdle
  /\ ToolsIdle

LoadedNext ==
  \/ LoadedCreateSession
  \/ LoadedCloseSession
  \/ LoadedCloseAllSessions
  \/ LoadedCloseSettled
  \/ LoadedSessionClosed

LoadedSpec == LoadedInit /\ [][LoadedNext]_vars

\* C24, the subscription: every session stored when closeAllSessions() is
\* subscribed to is being closed after it, and the store is empty
C24_SubscriptionStep ==
  loadedSessions'.lastCall.op = "closeAllSessions"
  => /\ { e.session : e \in loadedSessions.storage } \subseteq loadedSessions'.closing
     /\ loadedSessions'.storage = {}

\* C24: closeAllSessions(), once subscribed, closes every MediaKeySession
\* stored at that moment and leaves the store empty, and it emits null once,
\* after all these closings have ended
C24_CloseAllSessions ==
  /\ [][C24_SubscriptionStep]_vars
  /\ [](/\ loadedSessions.closeAll.emitted <= 1
        /\ loadedSessions.closeAll.emitted = 1
             => loadedSessions.closeAll.stored \subseteq loadedSessions.settled)

\* closeAllSessions() has emitted null for a store which held two sessions
C24_Witness ==
  /\ loadedSessions.closeAll.emitted = 1
  /\ Cardinality(loadedSessions.closeAll.stored) = 2

-----------------------------------------------------------------------------
(* The timeline of a TimelineRepresentationIndex *)

TimelineInit ==
  /\ SetWorldInit
  /\ StoreIdle
  /\ OrchIdle
  /\ persistentSessions = NewPersistentSessionsStore(<<>>)
  /\ loadedSessions = NewLoadedSessionsStore
  /\ \E ti \in TimelineIndexes : timelineIndex = NewTimelineState(ti)
  /\ updateScheduler = NewScheduler("url", NULL, 0)
  /\ thumbnailLoader = NewVideoThumbnailLoader

TimelineNext ==
  \/ TimelineGetFirstPosition
  \/ TimelineGetSegments
  \/ TimelineAdvance
  \/ TimelineUpdate
  \/ TimelineReplace

TimelineSpec == TimelineInit /\ [][TimelineNext]_vars

\* C25: parsing a timeline with an S element of which the duration is missing
\* or invalid never raises: the entry takes next.t - start as duration when
\* the next S element has a `t`, else it alone is dropped, and the other
\* entries are all parsed
C25_MissingDuration ==
  /\ timelineIndex.lastCall.error # "TOTO"
  /\ timelineIndex.lastCall.constructed # <<>>
       => timelineIndex.lastCall.constructed[1] =
            constructTimelineDist(timelineIndex.lastCall.parsed[1].timelineElt,
                                  timelineIndex.lastCall.parsed[1].scaledPeriodStart)

\* a query was made on an index which had to parse a timeline with an S
\* element without duration
C25_Witness ==
  /\ timelineIndex.lastCall.op \in {"getFirstPosition", "getSegments"}
  /\ ~timelineIndex.this.index.parsed
  /\ \E i \in DOMAIN timelineIndex.this.timelineElt :
       timelineIndex.this.timelineElt[i].d = <<>>

\* the timeline constructed by the last call starts with an S element
\* without `t`
FirstWithoutT ==
  /\ timelineIndex.lastCall.constructed # <<>>
  /\ timelineIndex.lastCall.parsed[1].timelineElt[1].t = <<>>

\* C26 as stated: when the first S element has no `t`, the parsed entry
\* starts at periodStart * timescale, whatever the presentationTimeOffset
C26_FirstStartIsPeriodStart ==
  FirstWithoutT
  => LET ti == timelineIndex.lastCall.parsed[1]
     IN timelineIndex.lastCall.constructed[1][1].start =
          ti.periodStart * ti.index.timescale

\* C26: when the first S element has no `t`, the parsed entry starts at the
\* start of the period in the time of the index,
\* periodStart * timescale + indexTimeOffset, which is the
\* presentationTimeOffset
C26_FirstStartInIndexTime ==
  FirstWithoutT
  => LET ti == timelineIndex.lastCall.parsed[1]
     IN /\ timelineIndex.lastCall.constructed[1][1].start =
             ti.periodStart * ti.index.timescale + ti.index.indexTimeOffset
        /\ timelineIndex.lastCall.constructed[1][1].start = ti.presentationTimeOffset

\* a timeline without `t` was parsed for an index of which the
\* presentationTimeOffset is not periodStart * timescale
C26_Witness ==
  /\ FirstWithoutT
  /\ timelineIndex.lastCall.parsed[1].presentationTimeOffset #
       timelineIndex.lastCall.parsed[1].periodStart
         * timelineIndex.lastCall.parsed[1].index.timescale

\* what the last query returned is not of an entry in `cleared` and, for
\* getFirstPosition, is not before `previous`
NothingBack(cleared, previous) ==
  /\ (timelineIndex.lastCall.op = "getFirstPosition" /\ timelineIndex.lastCall.result # <<>>)
       => /\ timelineIndex.lastCall.result[1] \notin cleared
          /\ previous # <<>> => timelineIndex.lastCall.result[1] >= previous[1]
  /\ (timelineIndex.lastCall.op = "getSegments" /\ timelineIndex.lastCall.result # <<>>)
       => timelineIndex.lastCall.result[1] \cap cleared = {}

\* C27 as stated: across queries, _update, _replace and advances of the first
\* available position, no getSegments returns a segment cleared before and
\* getFirstPosition never decreases
C27_NeverReintroduced ==
  NothingBack(timelineIndex.cleared, timelineIndex.lastCall.previousFirst)

\* C27: across the queries and the advances of the first available position
\* made since the last _update or _replace, no getSegments returns a segment
\* cleared before and getFirstPosition never decreases
C27_NeverReintroducedBetweenUpdates ==
  NothingBack(timelineIndex.clearedSince, timelineIndex.lastCall.previousSince)

\* getFirstPosition answered a second time after segments were cleared
C27_Witness ==
  /\ timelineIndex.lastCall.op = "getFirstPosition"
  /\ timelineIndex.lastCall.result # <<>>
  /\ timelineIndex.lastCall.previousSince # <<>>
  /\ timelineIndex.clearedSince # {}
  /\ timelineIndex.lastCall.result[1] > timelineIndex.lastCall.previousSince[1]

-----------------------------------------------------------------------------
(* The full refresh after a failed update of the Manifest *)

SchedulerInit ==
  /\ SetWorldInit
  /\ StoreIdle
  /\ OrchIdle
  /\ persistentSessions = NewPersistentSessionsStore(<<>>)
  /\ loadedSessions = NewLoadedSessionsStore
  /\ timelineIndex = NewTimelineState(CHOOSE ti \in TimelineIndexes : TRUE)
  /\ \E url \in {"", "url"}, manifestUpdateUrl \in {NULL, "updateUrl"},
        minimumManifestUpdateInterval \in {0, 3} :
       updateScheduler = NewScheduler(url, manifestUpdateUrl, minimumManifestUpdateInterval)
  /\ thumbnailLoader = NewVideoThumbnailLoader

SchedulerNext ==
  \/ SchedulerRefresh
  \/ SchedulerFetched
  \/ SchedulerFetchError
  \/ SchedulerTimer
  \/ SchedulerTick

SchedulerSpec == SchedulerInit /\ [][SchedulerNext]_vars

\* the update of the Manifest fetched from manifestUpdateUrl threw in this step
UpdateThrew ==
  /\ updateScheduler.phase = "fetching"
  /\ updateScheduler'.phase = "waiting"

\* a step of the scheduler after manifest.update threw: it waits, with
\* nothing fetched, until the delay is over; what it fetches then is a full
\* refresh; and the Manifest fetched replaces the Manifest, after which the
\* scheduler waits for the next reason to refresh, as after any refresh
RecoveryStep(fromOwnUrl) ==
  /\ UpdateThrew => updateScheduler'.fetch = NoFetch
  /\ (updateScheduler.phase = "waiting" /\ updateScheduler'.phase # "waiting")
       => /\ fromOwnUrl
          /\ updateScheduler'.phase = "fetching"
               => /\ updateScheduler'.fetch.fullRefresh
                  /\ updateScheduler'.fetch.url = updateScheduler.manifest.url
                  /\ updateScheduler.now >=
                       FAILED_PARTIAL_UPDATE_MANIFEST_REFRESH_DELAY
                         + (IF updateScheduler.failure.sendingTime = <<>>
                              THEN updateScheduler.failure.at
                              ELSE updateScheduler.failure.sendingTime[1])
  /\ (updateScheduler.fetch.recovering /\ updateScheduler'.lastCall.op = "fetched")
       => /\ updateScheduler'.manifest.version = updateScheduler.fetches
          /\ updateScheduler'.phase = "armed"

\* C28 as stated: when manifest.update throws on a partial update, the
\* scheduler fetches the Manifest from its own URL after the delay, replaces
\* the Manifest with it, and goes on as after any refresh
C28_FullRefreshAfterFailure ==
  [][RecoveryStep(updateScheduler'.phase = "fetching")]_vars

\* C28: the same when the Manifest has a URL; when it has none, the scheduler
\* warns that it cannot refresh the Manifest and stops there
C28_FullRefreshWhenUrl ==
  [][RecoveryStep(IF isNonEmptyString(updateScheduler.manifest.url)
                    THEN updateScheduler'.phase = "fetching"
                    ELSE /\ updateScheduler'.phase = "stopped"
                         /\ updateScheduler'.lastCall.warning =
                              "Init: Cannot refresh the manifest: no url")]_vars

\* the Manifest was replaced by the one fetched after a failed update
C28_Witness ==
  /\ updateScheduler.lastCall.op = "fetched"
  /\ updateScheduler.lastCall.recovered
  /\ updateScheduler.phase = "armed"

-----------------------------------------------------------------------------
(* The jobs of a VideoThumbnailLoader *)

ThumbnailInit ==
  /\ SetWorldInit
  /\ StoreIdle
  /\ OrchIdle
  /\ ToolsIdle

ThumbnailNext ==
  \/ ThumbnailSetTime
  \/ ThumbnailFinally
  \/ ThumbnailJobStep
  \/ ThumbnailJobError

ThumbnailSpec == ThumbnailInit /\ [][ThumbnailNext]_vars

\* the jobs which are loading
Loading(loader) ==
  { job \in DOMAIN loader.jobs : loader.jobs[job].status = "loading" }

\* the jobs which are loading the segment of a time
LoadingFor(loader, time) ==
  { job \in Loading(loader) :
      /\ loader.jobs[job].representation = ContentOf(time).representation
      /\ loader.jobs[job].segment = ContentOf(time).segment }

\* C21, one step: a setTime which starts a job aborts the jobs which are
\* loading another segment: their promises are rejected with ABORTED
C21_AbortStep ==
  (thumbnailLoader'.lastCall.op = "setTime" /\ thumbnailLoader'.lastCall.started)
  => \A job \in Loading(thumbnailLoader)
               \ LoadingFor(thumbnailLoader, thumbnailLoader'.lastCall.time) :
       /\ thumbnailLoader'.jobs[job].status = "rejected"
       /\ thumbnailLoader'.jobs[job].error = "ABORTED"

\* C21: when setTime is called for a time of which the segment is not the one
\* the job in progress is loading, the promise of that job is rejected with
\* ABORTED, never resolved nor rejected with LOADING_ERROR, and only the
\* promise of the later call can resolve: no two jobs are ever loading
C21_AbortedByLaterCall ==
  /\ [][C21_AbortStep]_vars
  /\ [](Cardinality(Loading(thumbnailLoader)) <= 1)

\* a job was aborted by a setTime for another segment, which started a job
C21_Witness ==
  /\ thumbnailLoader.lastCall.op = "setTime"
  /\ thumbnailLoader.lastCall.started
  /\ \E job \in DOMAIN thumbnailLoader.jobs :
       /\ thumbnailLoader.jobs[job].error = "ABORTED"
       /\ job \in thumbnailLoader.finallies

\* C22, one step: a setTime for the Representation and the segment a job is
\* loading starts no job and no request, and returns the promise of that job
C22_SameSegmentStep ==
  (/\ thumbnailLoader'.lastCall.op = "setTime"
   /\ LoadingFor(thumbnailLoader, thumbnailLoader'.lastCall.time) # {})
  => /\ ~thumbnailLoader'.lastCall.started
     /\ thumbnailLoader'.jobs = thumbnailLoader.jobs
     /\ thumbnailLoader'.requests = thumbnailLoader.requests
     /\ thumbnailLoader'.lastCall.returned
          \in LoadingFor(thumbnailLoader, thumbnailLoader'.lastCall.time)

\* C22: the setTime calls made while a job is loading, for its
\* Representation and its segment, start no job and no load and return the
\* promise of the job: one request is made for the init segment and one for
\* the segment
C22_OneJobPerSegment ==
  /\ [][C22_SameSegmentStep]_vars
  /\ [](\A job \in Loading(thumbnailLoader) :
          \A kind \in {"init", "media"} :
            Cardinality({ r \in DOMAIN thumbnailLoader.requests :
                            /\ thumbnailLoader.requests[r].kind = kind
                            /\ thumbnailLoader.requests[r].job \in Loading(thumbnailLoader)
                            /\ thumbnailLoader.requests[r].segment =
                                 thumbnailLoader.jobs[job].segment
                            /\ thumbnailLoader.requests[r].representation =
                                 thumbnailLoader.jobs[job].representation }) <= 1)

\* a setTime returned the promise of the job in progress, whose requests
\* were made
C22_Witness ==
  /\ thumbnailLoader.lastCall.op = "setTime"
  /\ ~thumbnailLoader.lastCall.started
  /\ thumbnailLoader.lastCall.returned \in Loading(thumbnailLoader)
  /\ thumbnailLoader.jobs[thumbnailLoader.lastCall.returned].stage = "media"

-----------------------------------------------------------------------------
(* The record of the current job of a VideoThumbnailLoader *)

\* C36: whenever a job is started and its promise is not settled, the record
\* of the current job of the loader is that job: the `finally` callback of an
\* aborted job never clears the record of a newer one, so that at most one
\* job is unsettled and a setTime for another segment aborts the job in
\* progress
C36_CurrentJobIsTheUnsettledOne ==
  /\ \A job \in Loading(thumbnailLoader) : thumbnailLoader.currentJob = job
  /\ Cardinality(Loading(thumbnailLoader)) <= 1

\* the `finally` callback of an aborted job has run while a newer job was
\* loading
C36_Witness ==
  /\ thumbnailLoader.lastCall.op = "finally"
  /\ thumbnailLoader.jobs[thumbnailLoader.lastCall.returned].error = "ABORTED"
  /\ \E job \in Loading(thumbnailLoader) : job > thumbnailLoader.lastCall.returned

-----------------------------------------------------------------------------
(* The entries of a PersistentSessionsStore *)

\* C37: a PersistentSessionsStore holds at most one entry for initialization
\* data and their type, and right after add(initData, initDataType, session)
\* with a non-empty session id, get(initData, initDataType) returns an entry
\* with this session id, also when an entry with another session id was held
\* for the same initialization data
C37_OneEntryPerInitData ==
  /\ \A initData \in InitDatas, initDataType \in InitDataTypes :
       Cardinality(Matching(persistentSessions, initData, initDataType)) <= 1
  /\ (persistentSessions.lastCall.op = "add" /\ persistentSessions.lastCall.sessionId # "")
       => LET got == PersistentGet(persistentSessions,
                                   persistentSessions.lastCall.initData,
                                   persistentSessions.lastCall.initDataType)
          IN /\ got # <<>>
             /\ got[1].sessionId = persistentSessions.lastCall.sessionId

\* add was called with a session id for initialization data of which the
\* store held an entry with another session id
C37_Witness ==
  /\ persistentSessions.lastCall.op = "add"
  /\ persistentSessions.lastCall.sessionId # ""
  /\ persistentSessions.lastCall.replaced

-----------------------------------------------------------------------------
(* The queue after a failure and after dispose() *)

\* C33: once the Subject of a task has failed (error event of the
\* SourceBuffer or exception of appendBuffer/remove during one of its steps),
\* the queue makes no further appendBuffer or remove call for that task: the
\* chunk of a push of which the init segment failed is never appended
C33_NoCallAfterFailure ==
  \A e \in DOMAIN trace : \A k \in Calls :
    (trace[e].ev = "error" /\ e < k) => trace[k].id # trace[e].id

\* the push of an init segment and of a chunk has failed on its init segment
C33_Witness ==
  \E e \in DOMAIN trace :
    /\ trace[e].ev = "error"
    /\ tasks[trace[e].id].action.initSegment # NULL
    /\ tasks[trace[e].id].action.chunk # NULL
    /\ \A k \in Calls : (k < e /\ trace[k].id = trace[e].id) => trace[k].isInit

\* the tasks dispose() has to complete: the pending one and the queued ones,
\* unless their Subject has failed already
Unsettled ==
  {id \in {queue[i].id : i \in DOMAIN queue} \cup
          (IF pendingTask # NoTask THEN {pendingTask.id} ELSE {}) :
     tasks[id].subject = "open"}

\* once dispose() was called, the tasks it found are completed, nothing is
\* pending or queued and no call is added to the trace
C34_DisposedStep ==
  destroyed' =>
    /\ queue' = <<>>
    /\ pendingTask' = NoTask
    /\ ~destroyed => \A id \in Unsettled : tasks'[id].subject = "completed"
    /\ destroyed =>
         \A k \in (Len(trace) + 1)..Len(trace') :
           trace'[k].ev \notin {"appendBuffer", "remove"}

\* C34: after dispose() returned, the pending task and every queued task
\* have completed without error, the queue is empty, and the queue never
\* calls appendBuffer or remove again, whatever subscriptions, SourceBuffer
\* events and interval ticks follow
C34_NoCallAfterDispose == [][C34_DisposedStep]_vars

\* the queue, its subscribers and its SourceBuffer, with dispose()
DisposeNext ==
  \/ (Len(tasks) < MaxFairTasks /\ PushChunk)
  \/ (Len(tasks) < MaxFairTasks /\ RemoveBuffer)
  \/ Unsubscribe
  \/ UpdateEnd
  \/ ErrorEvent
  \/ LostUpdateEnd
  \/ WatchdogTick
  \/ DisposeQueue

DisposeSpec == Init /\ [][DisposeNext]_vars

\* a task subscribed after dispose() is the pending task of the queue
C34_Witness ==
  /\ destroyed
  /\ pendingTask # NoTask
  /\ \E k \in Calls : trace[k].id = pendingTask.id

-----------------------------------------------------------------------------
(* The chunks pushMediaSegment inserts in the inventory *)

\* the insertChunk calls made on the inventory of an element
Inserted(element) ==
  {k \in DOMAIN element.queuedSourceBuffer.trace :
     element.queuedSourceBuffer.trace[k].ev = "insertChunk"}

\* the window given to the queue with the push of position k of the trace:
\* the safe append window
WindowOf(element, k) ==
  element.queuedSourceBuffer.tasks[element.queuedSourceBuffer.trace[k].id].action.appendWindow

\* C38: every chunk pushMediaSegment inserts in the inventory has a start not
\* after its end and lies in the safe append window
\* [max(0, start of the window - START), end of the window + END], also when
\* the time range announced for the segment is entirely before or after it
C38_InsertedInWindow ==
  \A i \in DOMAIN elements : \A k \in Inserted(elements[i]) :
    LET data == elements[i].queuedSourceBuffer.trace[k].data
        window == WindowOf(elements[i], k)
    IN /\ data.start <= data.end
       /\ window[1] # Undefined => window[1] <= data.start
       /\ window[2] # Undefined => data.end <= window[2]

\* a chunk was inserted for a segment announced entirely before the safe
\* append window of its push
C38_Witness ==
  \E i \in DOMAIN elements : \E k \in Inserted(elements[i]) :
    LET segment == elements[i].queuedSourceBuffer.trace[k].data.segment
        window == WindowOf(elements[i], k)
    IN /\ window[1] # Undefined
       /\ InSeconds(segment.time + segment.duration, segment.timescale) < window[1]

-----------------------------------------------------------------------------
(* The Periods considered by a PeriodBufferCreator *)

\* the Period Buffers running and the partial Periods being resolved:
\* <<chain, node>>
ConsideredNodes(c) ==
  { <<k, i>> \in (DOMAIN c.chains) \X (1..Len(manifest.periods)) :
      i <= Len(c.chains[k]) /\ c.chains[k][i].state \in {"running", "resolving"} }

\* the Periods of a set of nodes
PeriodsOf(c, nodes) == { c.chains[n[1]][n[2]].period : n \in nodes }

\* C31: the periodList of a buffer type is sorted by ascending Period start,
\* holds no Period twice, and holds exactly the Periods for which a Period
\* Buffer is running or a partial Period is being resolved: a Period is not
\* in the list any more once period-buffer-cleared was sent for it or once
\* its resolution was given up
C31_PeriodList ==
  \A t \in bufferTypes :
    LET list == creators[t].periodList
    IN /\ \A i, j \in DOMAIN list :
            i < j => manifest.periods[list[i]].start <= manifest.periods[list[j]].start
       /\ \A i, j \in DOMAIN list : i # j => list[i] # list[j]
       /\ {list[i] : i \in DOMAIN list}
            = PeriodsOf(creators[t], ConsideredNodes(creators[t]))

\* two Periods are considered and period-buffer-cleared was just sent for a
\* third one
C31_Witness ==
  \E t \in bufferTypes :
    /\ Len(creators[t].periodList) >= 2
    /\ \E e \in DOMAIN emitted :
         /\ emitted[e].type = "period-buffer-cleared"
         /\ emitted[e].bufferType = t

\* C35: for each buffer type at most one Period Buffer runs for a Period and
\* at most one chain of consecutive Period Buffers runs, also when a second
\* decipherabilityUpdate comes before the end of the flush of the first one
\* and when a decipherability update and an out-of-bounds restart interleave
C35_OneChain ==
  \A t \in bufferTypes :
    /\ \A m, n \in ConsideredNodes(creators[t]) :
         creators[t].chains[m[1]][m[2]].period = creators[t].chains[n[1]][n[2]].period
           => m = n
    /\ Cardinality({n[1] : n \in ConsideredNodes(creators[t])}) <= 1

\* Period Buffers were started after two decipherability flushes began
C35_Witness ==
  \E t \in bufferTypes :
    /\ Len(creators[t].flushes) = 2
    /\ \A f \in DOMAIN creators[t].flushes : creators[t].flushes[f].state = "done"
    /\ ConsideredNodes(creators[t]) # {}

-----------------------------------------------------------------------------
(* The events of a Period Buffer, as its PeriodBufferCreator forwards them *)

\* the last event sent by a creator
LastSent(c) == c.out[Len(c.out)]

\* what the filter of createPeriodBuffer does of an event of each type, for
\* every running Period Buffer
C32_Filtered ==
  \A t \in bufferTypes : \A n \in RunningNodes(creators[t]) :
    LET c == creators[t]
        period == c.chains[n[1]][n[2]].period
        isFirst == Len(c.periodList) > 0 /\ c.periodList[1] = period
        reload == OnNeedsMediaSourceReload(c, n[1], n[2])
        full == OnFullBuffer(c, n[1], n[2])
        active == OnActiveBuffer(c, n[1], n[2])
    IN /\ isFirst => reload = Send(c, "needs-media-source-reload", period, 0)
       /\ ~isFirst => reload = c
       /\ Len(full.out) > 0 /\ LastSent(full) = OrchEvent(t, "full-buffer", period, 0)
       /\ Len(active.out) > 0 /\ LastSent(active) = OrchEvent(t, "active-buffer", period, 0)

\* the orchestrator sends needs-media-source-reload only for the first Period
\* of the list of the type
C32_ReloadStep ==
  \A e \in DOMAIN emitted' :
    emitted'[e].type = "needs-media-source-reload"
      => /\ Len(creators[emitted'[e].bufferType].periodList) > 0
         /\ creators[emitted'[e].bufferType].periodList[1] = emitted'[e].period

\* C32: a needs-media-source-reload of a Period Buffer is forwarded only if
\* its Period is then the first Period of periodList and is dropped
\* otherwise; the events of the other types are always forwarded unchanged
C32_ReloadOnlyFromFirstPeriod == [][C32_ReloadStep]_vars /\ []C32_Filtered

\* needs-media-source-reload was forwarded while a Period Buffer ran for a
\* Period which is not the first of the list
C32_Witness ==
  \E t \in bufferTypes :
    /\ \E e \in DOMAIN emitted :
         emitted[e].type = "needs-media-source-reload" /\ emitted[e].bufferType = t
    /\ \E n \in RunningNodes(creators[t]) :
         creators[t].chains[n[1]][n[2]].period # creators[t].periodList[1]

-----------------------------------------------------------------------------
(* The positions a TimelineRepresentationIndex answers for its Period *)

\* last second of the positions asked to an index
MaxSeconds == 5

\* Math.ceil(a / b), b > 0
MathCeilDiv(a, b) == -((-a) \div b)

\* calculateRepeat of index_helpers: a negative repeatCount repeats the
\* element until the next one, else until maxPosition, else without end
calculateRepeat(element, nextElement, maxPosition) ==
  IF element.repeatCount >= 0
    THEN element.repeatCount
    ELSE LET segmentEnd == IF nextElement # <<>> THEN nextElement[1].start
                           ELSE IF maxPosition # Undefined THEN maxPosition
                           ELSE Infinity
         IN MathCeilDiv(segmentEnd - element.start, element.duration) - 1

\* getIndexSegmentEnd of index_helpers
getIndexSegmentEnd(segment, nextSegment, maxPosition) ==
  IF segment.duration <= 0
    THEN segment.start
    ELSE segment.start
           + (calculateRepeat(segment, nextSegment, maxPosition) + 1) * segment.duration

\* getSegmentsFromTimeline: time and duration, in index time, of the segments
\* of the timeline which intersect [from, from + durationWanted]
getSegmentsFromTimeline(index, from, durationWanted, scaledPeriodEnd) ==
  LET scaledUp == toIndexTime(from, index)
      scaledTo == toIndexTime(from + durationWanted, index)
      timeline == index.timeline
      repeat(i) == calculateRepeat(timeline[i],
                                   IF i < Len(timeline) THEN <<timeline[i + 1]>> ELSE <<>>,
                                   scaledPeriodEnd)
  IN { [time |-> timeline[i].start + n * timeline[i].duration,
        duration |-> timeline[i].duration] :
         <<i, n>> \in { <<j, m>> \in (DOMAIN timeline) \X (0..(2 * MaxSeconds + 2)) :
                          /\ m <= repeat(j)
                          /\ timeline[j].start + m * timeline[j].duration < scaledTo
                          /\ timeline[j].start + (m + 1) * timeline[j].duration > scaledUp } }

\* getSegmentIndex: <<low, high>> is the interval left to the binary search
RECURSIVE getSegmentIndexFrom(_, _, _, _)
getSegmentIndexFrom(timeline, start, low, high) ==
  IF low < high
    THEN LET mid == (low + high) \div 2
         IN IF timeline[mid + 1].start < start
              THEN getSegmentIndexFrom(timeline, start, mid + 1, high)
              ELSE getSegmentIndexFrom(timeline, start, low, mid)
    ELSE IF low > 0 THEN low - 1 ELSE low

getSegmentIndex(timeline, start) ==
  getSegmentIndexFrom(timeline, start, 0, Len(timeline))

\* new TimelineRepresentationIndex(index, context), for a period of which
\* the end may be known (Undefined when it is not)
TimelineRepresentationIndexOfPeriod(timelineElt, timescale, presentationTimeOffset, periodStart, periodEnd, isDynamic) ==
  LET index == [indexTimeOffset |-> presentationTimeOffset - periodStart * timescale,
                timescale |-> timescale, parsed |-> FALSE, timeline |-> <<>>]
  IN [timelineElt |-> timelineElt,
      index |-> index,
      isDynamic |-> isDynamic,
      scaledPeriodStart |-> toIndexTime(periodStart, index),
      scaledPeriodEnd |-> IF periodEnd = Undefined THEN Undefined
                          ELSE toIndexTime(periodEnd, index),
      minimumBound |-> Undefined,
      periodStart |-> periodStart,
      presentationTimeOffset |-> presentationTimeOffset]

\* TimelineRepresentationIndex.getIndexEnd: <<>> for null
getIndexEnd(timeline, scaledPeriodEnd) ==
  IF Len(timeline) <= 0
    THEN <<>>
    ELSE <<getIndexSegmentEnd(timeline[Len(timeline)], <<>>, scaledPeriodEnd)>>

\* getLastPosition, on an index refreshed and parsed: <<>> for null
getLastPosition(ti) ==
  LET lastTime == getIndexEnd(ti.index.timeline, ti.scaledPeriodStart)
  IN IF lastTime = <<>> THEN <<>> ELSE <<fromIndexTime(lastTime[1], ti.index)>>

\* checkDiscontinuity, on an index refreshed and parsed
checkDiscontinuity(ti, time) ==
  LET timeline == ti.index.timeline
      scaledTime == toIndexTime(time, ti.index)
      segmentIndex == getSegmentIndex(timeline, scaledTime)
      timelineItem == timeline[segmentIndex + 1]
      nextTimelineItem == timeline[segmentIndex + 2]
      rangeUp == timelineItem.start
      rangeTo == getIndexSegmentEnd(timelineItem, <<nextTimelineItem>>, ti.scaledPeriodEnd)
  IN IF scaledTime <= 0 THEN -1
     ELSE IF segmentIndex < 0 \/ segmentIndex >= Len(timeline) - 1 THEN -1
     ELSE IF timelineItem.duration = -1 THEN -1
     ELSE IF /\ rangeTo < nextTimelineItem.start
             /\ scaledTime >= rangeUp
             /\ rangeTo - scaledTime < ti.index.timescale
       THEN fromIndexTime(nextTimelineItem.start, ti.index)
       ELSE -1

\* isFinished, the times of the index being whole numbers: `lastTime + 1 / 60
\* >= scaledPeriodEnd` is `lastTime >= scaledPeriodEnd`
isFinished(ti) ==
  IF ~ti.isDynamic THEN TRUE
  ELSE LET timeline == Parsed(ti).ti.index.timeline
       IN IF ti.scaledPeriodEnd = Undefined \/ Len(timeline) = 0
            THEN FALSE
            ELSE getIndexSegmentEnd(timeline[Len(timeline)], <<>>, ti.scaledPeriodEnd)
                   >= ti.scaledPeriodEnd

\* timelines, in seconds from the start of the period: with a gap, with a
\* gap and a last element repeated until the end of the period, of one
\* element repeated until the end of the period, without gap, and with an
\* element repeated until the next one
PositionShapes ==
  { << SNode(<<0>>, <<1>>, <<>>), SNode(<<2>>, <<1>>, <<>>) >>,
    << SNode(<<0>>, <<1>>, <<1>>), SNode(<<3>>, <<1>>, <<-1>>) >>,
    << SNode(<<0>>, <<1>>, <<-1>>) >>,
    << SNode(<<0>>, <<1>>, <<>>), SNode(<<1>>, <<1>>, <<1>>) >>,
    << SNode(<<0>>, <<1>>, <<-1>>), SNode(<<2>>, <<2>>, <<>>) >> }

\* the indexes asked: the period lasts four seconds when its end is known
PositionIndexes ==
  { TimelineRepresentationIndexOfPeriod(
      TimelineElement(shape, timescale, offset * timescale),
      timescale, offset * timescale, periodStart,
      IF endKnown THEN periodStart + 4 ELSE Undefined, isDynamic) :
      shape \in PositionShapes, timescale \in {1, 2}, offset \in {0, 1},
      periodStart \in {0, 1}, endKnown \in BOOLEAN, isDynamic \in BOOLEAN }

NoPositionCall ==
  [op |-> "none", time |-> 0, duration |-> 0, position |-> <<>>, segments |-> {},
   finished |-> FALSE]

\* a call of a method of the index: the timeline is refreshed and parsed
\* first (isFinished parses it only)
PositionCall(state, op, time, duration) ==
  LET ti == IF op = "isFinished" THEN Parsed(state.this).ti ELSE Refreshed(state.this).ti
  IN [this |-> ti,
      lastCall |->
        [op |-> op, time |-> time, duration |-> duration,
         position |-> IF op = "getLastPosition" THEN getLastPosition(ti)
                      ELSE IF op = "checkDiscontinuity" THEN <<checkDiscontinuity(ti, time)>>
                      ELSE <<>>,
         segments |-> IF op = "getSegments"
                        THEN getSegmentsFromTimeline(ti.index, time, duration,
                                                     ti.scaledPeriodEnd)
                        ELSE {},
         finished |-> op = "isFinished" /\ isFinished(state.this)]]

PositionGetLastPosition ==
  /\ timelineIndex' = PositionCall(timelineIndex, "getLastPosition", 0, 0)
  /\ ToolsFrame("timelineIndex")

PositionCheckDiscontinuity ==
  /\ \E time \in 0..MaxSeconds :
       timelineIndex' = PositionCall(timelineIndex, "checkDiscontinuity", time, 0)
  /\ ToolsFrame("timelineIndex")

PositionGetSegments ==
  /\ \E from \in 0..MaxSeconds, duration \in {1, MaxSeconds} :
       timelineIndex' = PositionCall(timelineIndex, "getSegments", from, duration)
  /\ ToolsFrame("timelineIndex")

PositionIsFinished ==
  /\ timelineIndex' = PositionCall(timelineIndex, "isFinished", 0, 0)
  /\ ToolsFrame("timelineIndex")

PositionInit ==
  /\ SetWorldInit
  /\ StoreIdle
  /\ OrchIdle
  /\ persistentSessions = NewPersistentSessionsStore(<<>>)
  /\ loadedSessions = NewLoadedSessionsStore
  /\ \E ti \in PositionIndexes : timelineIndex = [this |-> ti, lastCall |-> NoPositionCall]
  /\ updateScheduler = NewScheduler("url", NULL, 0)
  /\ thumbnailLoader = NewVideoThumbnailLoader

PositionNext ==
  \/ PositionGetLastPosition
  \/ PositionCheckDiscontinuity
  \/ PositionGetSegments
  \/ PositionIsFinished

PositionSpec == PositionInit /\ [][PositionNext]_vars

\* the starts, in seconds, of the elements of the timeline of an index
StartsOf(ti) ==
  { fromIndexTime(ti.index.timeline[i].start, ti.index) : i \in DOMAIN ti.index.timeline }

\* C39: checkDiscontinuity(t) returns -1 or the start of a later range of
\* the timeline, a position strictly after t; it returns -1 when t is the
\* start of an element of the timeline, even one which comes after a gap
C39_DiscontinuityIsLater ==
  timelineIndex.lastCall.op = "checkDiscontinuity"
    => LET result == timelineIndex.lastCall.position[1]
           time == timelineIndex.lastCall.time
       IN /\ result = -1 \/ (result > time /\ result \in StartsOf(timelineIndex.this))
          /\ time \in StartsOf(timelineIndex.this) => result = -1

\* checkDiscontinuity was called with the start of an element of the
\* timeline which comes after a gap
C39_Witness ==
  /\ timelineIndex.lastCall.op = "checkDiscontinuity"
  /\ \E i \in DOMAIN timelineIndex.this.index.timeline :
       /\ i > 1
       /\ toIndexTime(timelineIndex.lastCall.time, timelineIndex.this.index)
            = timelineIndex.this.index.timeline[i].start
       /\ getIndexSegmentEnd(timelineIndex.this.index.timeline[i - 1],
                             <<timelineIndex.this.index.timeline[i]>>,
                             timelineIndex.this.scaledPeriodEnd)
            < timelineIndex.this.index.timeline[i].start

\* the ends, in index time, of the segments getSegments can return
SegmentEnds(ti) ==
  { s.time + s.duration :
      s \in UNION { getSegmentsFromTimeline(ti.index, from, MaxSeconds, ti.scaledPeriodEnd) :
                      from \in 0..MaxSeconds } }

\* C40: getLastPosition() returns the end of the last segment the index
\* generates: it is never before the end of a segment returned by
\* getSegments and, for a timeline of which the last element is repeated
\* until the end of a Period of known end, it is computed from the end of
\* the Period, as the end of the last segment isFinished() uses, and not
\* from its start
C40_LastPosition ==
  timelineIndex.lastCall.op = "getLastPosition"
    => LET ti == timelineIndex.this
           result == timelineIndex.lastCall.position
           timeline == ti.index.timeline
       IN /\ result # <<>>
          /\ \A end \in SegmentEnds(ti) : end <= toIndexTime(result[1], ti.index)
          /\ (timeline[Len(timeline)].repeatCount < 0 /\ ti.scaledPeriodEnd # Undefined)
               => /\ result = <<fromIndexTime(
                                  getIndexSegmentEnd(timeline[Len(timeline)], <<>>,
                                                     ti.scaledPeriodEnd),
                                  ti.index)>>
                  /\ ti.isDynamic
                       => (isFinished(ti)
                             <=> toIndexTime(result[1], ti.index) >= ti.scaledPeriodEnd)

\* getLastPosition was called on an index of which the last element is
\* repeated until the end of the Period, which is known
C40_Witness ==
  /\ timelineIndex.lastCall.op = "getLastPosition"
  /\ timelineIndex.this.scaledPeriodEnd # Undefined
  /\ LET timeline == timelineIndex.this.index.timeline
     IN timeline[Len(timeline)].repeatCount < 0

====
